---- MODULE Spec2Model ----
(***************************************************************************)
(* Model of the conversational product-search backend                      *)
(* (backend/src/api/routers/search.py, products.py, llm_handler.py,        *)
(* rag_pipeline.py, data_loader.py).                                       *)
(*                                                                         *)
(* Encoding of Python values:                                              *)
(*   - Python None in a string position is the string "None";              *)
(*   - Optional[float] is a sequence of length 0 (None) or 1 (the value);  *)
(*   - a str that is inspected character by character (the rating) is a    *)
(*     sequence of code points, every other str is an atom;                *)
(*   - a list is a sequence; an Optional list that is None is <<>>         *)
(*     (the code only ever tests such lists for truthiness);               *)
(*   - a dict with string keys is a function whose DOMAIN is its key set.  *)
(***************************************************************************)
EXTENDS Integers, Sequences, FiniteSets, TLC

None == "None"

\* Python truthiness of an Optional[str]
Truthy(s) == s # None /\ s # ""

\* all sequences over S of length at most n
RECURSIVE SeqsUpTo(_, _)
SeqsUpTo(S, n) ==
    IF n = 0 THEN {<<>>}
    ELSE LET shorter == SeqsUpTo(S, n - 1)
         IN  shorter \cup {Append(s, e) : s \in {t \in shorter : Len(t) = n - 1}, e \in S}

(***************************************************************************)
(* data_models.py                                                          *)
(***************************************************************************)
Product(id, name, margin) ==
    [product_id |-> id, product_name |-> name, category |-> "Serum",
     description |-> "catalog description", price_usd |-> <<25>>,
     currency_code |-> "USD", margin_percentage |-> margin,
     key_ingredients |-> <<"Vitamin C">>, tags |-> <<"brightening">>,
     image_url |-> "catalog.png"]

DocumentChunk(cid, doc, text, stype, meta) ==
    [chunk_id |-> cid, document_id |-> doc, text_chunk |-> text,
     source_type |-> stype, metadata |-> meta]

ProductResult(p, j, revs) ==
    [product |-> p, justification |-> j, supporting_reviews |-> revs]

SearchResponse(sid, res, ctx, fq, ans, cj) ==
    [session_id |-> sid, results |-> res, rag_contexts |-> ctx,
     follow_up_questions |-> fq, answer |-> ans, contextual_justification |-> cj]

(***************************************************************************)
(* The catalogue file and the records it holds.                            *)
(***************************************************************************)
\* a line of the CSV file as pandas.read_csv hands it to the loader: the cells
\* product_id and name, and the cell of the column 'margin (%)', <<x>> for a
\* number and <<>> for an empty cell; margin_column tells whether the file
\* has that column at all
CsvRow(id, name, margin_cell) ==
    [product_id |-> id, name |-> name, margin |-> margin_cell, margin_column |-> TRUE]

\* the float read_csv gives an empty numeric cell; a value outside the range
\* of margins stands for it, and it is ordered only through KeyLt
NaN == 0 - 1

\* a row whose required product_id cell is empty fails Product(**row)
BadRow == CsvRow(None, "Broken Row", <<10>>)

\* lines 28-33: Product(**row) accepts the row.  read_csv gives an empty cell
\* as the float NaN, which the required str fields product_id and
\* product_name (alias 'name') refuse.  The cells the rows do not vary
\* (category, description, price, ingredients, tags, image) hold a value in
\* every row.
Validates(row) == row.product_id # None /\ row.name # None

CatalogRowsA ==
    << CsvRow("P001", "Bright C Serum", <<55>>),
       CsvRow("P002", "Hydra Gel", <<30>>),
       BadRow,
       CsvRow("P003", "Calm Toner", <<>>),
       CsvRow("P004", "Night Cream", <<55>>) >>

\* same products, other margins (a later edit of the file)
CatalogRowsB ==
    << CsvRow("P001", "Bright C Serum", <<20>>),
       CsvRow("P002", "Hydra Gel", <<30>>),
       CsvRow("P003", "Calm Toner", <<40>>),
       CsvRow("P005", None, <<10>>),
       CsvRow("P004", "Night Cream", <<>>) >>

\* the same products in a file that has no column 'margin (%)'
CatalogRowsNoMarginColumn ==
    [i \in 1..Len(CatalogRowsB) |-> [CatalogRowsB[i] EXCEPT !.margin_column = FALSE]]

CatalogFile(ex, mt, rows, ok) ==
    [exists |-> ex, mtime |-> mt, rows |-> rows, parses |-> ok]

\* Product(**row) for a row that validates: an absent column leaves the
\* default None, an empty cell arrives as the float NaN, which Optional[float]
\* accepts
ProductOfRow(row) ==
    Product(row.product_id, row.name,
            IF ~row.margin_column THEN <<>>
            ELSE IF row.margin = <<>> THEN <<NaN>>
            ELSE row.margin)

\* variant: the list is handed out while its last row is still to be added
RECURSIVE LoadWithoutLastRow(_)
LoadWithoutLastRow(rows) ==
    IF Len(rows) <= 1 THEN <<>>
    ELSE IF ~Validates(Head(rows))
         THEN LoadWithoutLastRow(Tail(rows))
         ELSE <<ProductOfRow(Head(rows))>> \o LoadWithoutLastRow(Tail(rows))

\* data_loader.load_products_from_csv: one Product per row, a row that does
\* not validate is skipped
RECURSIVE load_products_from_csv(_)
load_products_from_csv(rows) ==
    IF rows = <<>> THEN <<>>
    ELSE IF ~Validates(Head(rows))
         THEN load_products_from_csv(Tail(rows))
         ELSE <<ProductOfRow(Head(rows))>> \o load_products_from_csv(Tail(rows))

\* variant: line 29 with >= in place of >, an unchanged file is read again
GetProductsReloadsUnchanged(cache, cache_mtime, file) ==
    IF ~file.exists
    THEN [cache |-> <<>>, mtime |-> <<>>, raised |-> TRUE, value |-> <<>>, read |-> FALSE]
    ELSE IF cache = <<>> \/ cache_mtime = <<>> \/ file.mtime >= cache_mtime[1]
         THEN IF ~file.parses
              THEN [cache |-> cache, mtime |-> cache_mtime, raised |-> TRUE,
                    value |-> <<>>, read |-> TRUE]
              ELSE LET loaded == load_products_from_csv(file.rows)
                   IN  [cache |-> loaded, mtime |-> <<file.mtime>>, raised |-> FALSE,
                        value |-> loaded, read |-> TRUE]
         ELSE [cache |-> cache, mtime |-> cache_mtime, raised |-> FALSE,
               value |-> cache, read |-> FALSE]

\* variant: a missing file is answered from the cache
GetProductsServesCacheWhenMissing(cache, cache_mtime, file) ==
    IF ~file.exists
    THEN [cache |-> cache, mtime |-> cache_mtime, raised |-> FALSE, value |-> cache,
          read |-> FALSE]
    ELSE IF cache = <<>> \/ cache_mtime = <<>> \/ file.mtime > cache_mtime[1]
         THEN IF ~file.parses
              THEN [cache |-> cache, mtime |-> cache_mtime, raised |-> TRUE,
                    value |-> <<>>, read |-> TRUE]
              ELSE LET loaded == load_products_from_csv(file.rows)
                   IN  [cache |-> loaded, mtime |-> <<file.mtime>>, raised |-> FALSE,
                        value |-> loaded, read |-> TRUE]
         ELSE [cache |-> cache, mtime |-> cache_mtime, raised |-> FALSE,
               value |-> cache, read |-> FALSE]

\* products.get_products_from_file as a function of the cache and the file:
\* the new cache, the new timestamp, and the list returned or the error raised
get_products_from_file(cache, cache_mtime, file) ==
    IF ~file.exists
    THEN [cache |-> <<>>, mtime |-> <<>>, raised |-> TRUE, value |-> <<>>, read |-> FALSE]
    ELSE IF cache = <<>> \/ cache_mtime = <<>> \/ file.mtime > cache_mtime[1]
         THEN IF ~file.parses
              THEN [cache |-> cache, mtime |-> cache_mtime, raised |-> TRUE,
                    value |-> <<>>, read |-> TRUE]
              ELSE LET loaded == load_products_from_csv(file.rows)
                   IN  [cache |-> loaded, mtime |-> <<file.mtime>>, raised |-> FALSE,
                        value |-> loaded, read |-> TRUE]
         ELSE [cache |-> cache, mtime |-> cache_mtime, raised |-> FALSE,
               value |-> cache, read |-> FALSE]

\* search.py line 53: {p.product_id: p for p in list}; a later entry wins
RECURSIVE product_catalog_dict(_)
product_catalog_dict(list) ==
    IF list = <<>> THEN << >>
    ELSE LET p == list[Len(list)]
             rest == product_catalog_dict(SubSeq(list, 1, Len(list) - 1))
         IN  (p.product_id :> p) @@ rest

(***************************************************************************)
(* The retrieval batch (query_vector_store's formatted_results).           *)
(***************************************************************************)
\* the glyph the reconciler counts, search.py line 128: the three code
\* points U+00E2 U+02DC U+2026
StarPattern == <<"U+00E2", "U+02DC", "U+2026">>
\* BLACK STAR, one code point
BlackStar == "U+2605"

RECURSIVE Repeat(_, _)
Repeat(s, n) == IF n = 0 THEN <<>> ELSE s \o Repeat(s, n - 1)

Metadata(doc, stype, pid, pname, rating) ==
    [original_doc_id |-> doc, source_type |-> stype, product_id |-> pid,
     product_name |-> pname, rating |-> rating]

RawDict(id, text, meta) == [id |-> id, text_chunk |-> text, metadata |-> meta]

BatchFull ==
    << RawDict("c1", "Product Name: Bright C Serum",
               Metadata("product_P001", "product_info", "P001", "Bright C Serum", <<>>)),
       RawDict("r1", "Review for bright c serum (4)",
               Metadata("review_txt_0", "review", None, "bright c serum", Repeat(StarPattern, 4))),
       RawDict("r2", "Review for Bright C Serum (2)",
               Metadata("review_txt_1", "review", None, "Bright C Serum", Repeat(StarPattern, 2))),
       RawDict("r3", "Review for Hydra Gel (5)",
               Metadata("review_txt_2", "review", "P002", "Hydra Gel", Repeat(StarPattern, 5))),
       RawDict("r4", "Review for Bright C Serum (4, black stars)",
               Metadata("review_txt_3", "review", None, "Bright C Serum", Repeat(<<BlackStar>>, 4))),
       RawDict("m1", "chunk without provenance",
               Metadata(None, "review", None, "Bright C Serum", Repeat(StarPattern, 5))) >>

BatchEmpty == << >>

\* str.lower() on the names the model uses
Lower(s) == IF s = "Bright C Serum" THEN "bright c serum"
            ELSE IF s = "Hydra Gel" THEN "hydra gel"
            ELSE IF s = "Calm Toner" THEN "calm toner"
            ELSE IF s = "Night Cream" THEN "night cream"
            ELSE IF s = "LLM Invented Name" THEN "llm invented name"
            ELSE s

\* str.count(pattern): non-overlapping occurrences, scanning left to right
RECURSIVE Count(_, _)
Count(s, pat) ==
    IF Len(s) < Len(pat) THEN 0
    ELSE IF SubSeq(s, 1, Len(pat)) = pat
         THEN 1 + Count(SubSeq(s, Len(pat) + 1, Len(s)), pat)
         ELSE Count(Tail(s), pat)

(***************************************************************************)
(* llm_handler.get_conversational_response: hydration of the model's JSON  *)
(***************************************************************************)
\* line 203: {raw.get('id'): raw for raw in batch if raw.get('id')}
RECURSIVE raw_dict_map(_)
raw_dict_map(batch) ==
    IF batch = <<>> THEN << >>
    ELSE LET d == batch[Len(batch)]
             rest == raw_dict_map(SubSeq(batch, 1, Len(batch) - 1))
         IN  IF ~Truthy(d.id) THEN rest ELSE (d.id :> d) @@ rest

\* lines 207-232: one id of used_rag_context_ids becomes zero or one chunk
HydrateContext(cid, map) ==
    IF cid \notin DOMAIN map THEN <<>>
    ELSE LET raw == map[cid]
             m == raw.metadata
         IN  IF ~(Truthy(cid) /\ Truthy(m.original_doc_id) /\ Truthy(m.source_type)
                  /\ Truthy(raw.text_chunk))
             THEN <<>>
             ELSE << DocumentChunk(cid, m.original_doc_id, raw.text_chunk, m.source_type, m) >>

RECURSIVE hydrated_rag_contexts(_, _)
hydrated_rag_contexts(ids, map) ==
    IF ids = <<>> THEN <<>>
    ELSE HydrateContext(Head(ids), map) \o hydrated_rag_contexts(Tail(ids), map)

\* lines 245-273: as HydrateContext, and the chunk must be a review
HydrateReview(cid, map) ==
    LET c == HydrateContext(cid, map)
    IN  IF c # <<>> /\ c[1].source_type # "review" THEN <<>> ELSE c

RECURSIVE hydrated_reviews_for_product(_, _)
hydrated_reviews_for_product(ids, map) ==
    IF ids = <<>> THEN <<>>
    ELSE HydrateReview(Head(ids), map) \o hydrated_reviews_for_product(Tail(ids), map)

\* lines 196-288: the SearchResponse built from a JSON object that passed
\* json.loads and the schema.  json.results[i] carries the model's product,
\* justification, supporting_review_chunk_ids and (schema field of
\* ProductResult) supporting_reviews.
ParsedResponse(json, batch, session_id, fresh_uuid) ==
    LET map == raw_dict_map(batch)
        res == IF json.results # <<>> /\ batch # <<>>
               THEN [i \in 1..Len(json.results) |->
                        ProductResult(json.results[i].product,
                                      json.results[i].justification,
                                      hydrated_reviews_for_product(
                                          json.results[i].supporting_review_chunk_ids, map))]
               ELSE [i \in 1..Len(json.results) |->
                        ProductResult(json.results[i].product,
                                      json.results[i].justification,
                                      json.results[i].supporting_reviews)]
        sid == IF Truthy(json.session_id) THEN json.session_id
               ELSE IF Truthy(session_id) THEN session_id
               ELSE fresh_uuid
    IN  SearchResponse(sid, res, hydrated_rag_contexts(json.used_rag_context_ids, map),
                       json.follow_up_questions, json.answer, json.contextual_justification)

\* does this call of ParsedResponse consume a uuid4()
UsesUuid(json, session_id) == ~Truthy(json.session_id) /\ ~Truthy(session_id)

(***************************************************************************)
(* search.conversational_search, lines 70-145: merge, re-rank, reconcile   *)
(***************************************************************************)
\* variant: the catalogue record only fills in what the model left out, so
\* the model's description survives
MergedResultKeepsDescription(p_res_from_llm, catalog) ==
    ProductResult([catalog[p_res_from_llm.product.product_id] EXCEPT
                      !.description = p_res_from_llm.product.description],
                  p_res_from_llm.justification,
                  p_res_from_llm.supporting_reviews)

\* lines 76-80: the result that replaces a model result whose id resolves
MergedResult(p_res_from_llm, catalog) ==
    ProductResult(catalog[p_res_from_llm.product.product_id],
                  p_res_from_llm.justification,
                  p_res_from_llm.supporting_reviews)

\* variant: a result whose id does not resolve is passed through as proposed
RECURSIVE valid_results_passthrough(_, _)
valid_results_passthrough(results, catalog) ==
    IF results = <<>> THEN <<>>
    ELSE IF Head(results).product.product_id \in DOMAIN catalog
         THEN <<MergedResult(Head(results), catalog)>>
                  \o valid_results_passthrough(Tail(results), catalog)
         ELSE <<Head(results)>> \o valid_results_passthrough(Tail(results), catalog)

\* lines 70-85
RECURSIVE valid_results(_, _)
valid_results(results, catalog) ==
    IF results = <<>> THEN <<>>
    ELSE IF Head(results).product.product_id \in DOMAIN catalog
         THEN <<MergedResult(Head(results), catalog)>> \o valid_results(Tail(results), catalog)
         ELSE valid_results(Tail(results), catalog)

\* line 89: margin_percentage is not None, which holds for NaN
HasMargin(p_res) == p_res.product.margin_percentage # <<>>
MarginOf(p_res) == p_res.product.margin_percentage[1]

\* key(a) < key(b) on floats: every comparison with NaN is false
KeyLt(a, b) ==
    /\ MarginOf(a) # NaN
    /\ MarginOf(b) # NaN
    /\ MarginOf(a) < MarginOf(b)

Reverse(s) == [i \in 1..Len(s) |-> s[Len(s) + 1 - i]]

\* What the program runs on, as far as its behaviour on a NaN margin depends
\* on it; src names no version of either.  list_sort: how list.sort finds the
\* first run of a list, which CPython changed with version 3.13.  json_nan:
\* what the encoding of a returned body does with a float NaN, write null
\* or raise.
Builds ==
    [list_sort : {"cpython_3_12", "cpython_3_13"}, json_nan : {"null", "raises"}]

\* count_run of list.sort on lo, a list of two or more elements: the length n
\* of the run the list starts with, and the list with that run put in
\* ascending order.  Up to CPython 3.12 the run is strictly descending when
\* lo[2] < lo[1], and otherwise goes on as long as no element is less than
\* the one before it.  From CPython 3.13 on a run of elements none of which
\* is less than the one before counts as descending when its first element
\* is not less than its last, a descending run takes in elements that are
\* neither less nor greater (each such stretch is turned round first), and
\* the run turned round is extended by the elements that follow in ascending
\* order.
count_run(lo, list_sort) ==
    LET N == Len(lo)
        Ascending(s, from) ==
            LET ends == {n \in from..N : n = N \/ KeyLt(s[n + 1], s[n])}
            IN  CHOOSE n \in ends : \A m \in ends : n <= m
        ReversedSlice(s, a, b) ==
            [i \in 1..N |-> IF a <= i /\ i <= b THEN s[a + b - i] ELSE s[i]]
        ReverseLastNeq(s, n, neq) ==
            IF neq = 0 THEN s ELSE ReversedSlice(s, n - neq, n)
        RECURSIVE Descending(_, _, _)
        Descending(s, n, neq) ==
            IF n = N THEN [keys |-> s, n |-> n, neq |-> neq]
            ELSE IF KeyLt(s[n + 1], s[n])
                 THEN Descending(ReverseLastNeq(s, n, neq), n + 1, 0)
                 ELSE IF KeyLt(s[n], s[n + 1])
                      THEN [keys |-> s, n |-> n, neq |-> neq]
                      ELSE Descending(s, n + 1, neq + 1)
    IN  IF list_sort = "cpython_3_12"
        THEN LET desc == KeyLt(lo[2], lo[1])
                 ends == {k \in 2..N : k = N \/ (KeyLt(lo[k + 1], lo[k]) # desc)}
                 n == CHOOSE k \in ends : \A j \in ends : k <= j
             IN  [n |-> n, keys |-> IF desc THEN ReversedSlice(lo, 1, n) ELSE lo]
        ELSE LET n1 == Ascending(lo, 1)
             IN  IF n1 = N \/ (n1 > 1 /\ KeyLt(lo[1], lo[n1]))
                 THEN [n |-> n1, keys |-> lo]
                 ELSE LET d == Descending(ReversedSlice(lo, 1, n1), n1 + 1, 0)
                          turned == ReversedSlice(ReverseLastNeq(d.keys, d.n, d.neq), 1, d.n)
                      IN  [n |-> Ascending(turned, d.n), keys |-> turned]

\* the place binarysort finds for pivot among s[l+1..r], counted from 0
RECURSIVE BinarySearch(_, _, _, _)
BinarySearch(s, pivot, l, r) ==
    IF l >= r THEN l
    ELSE LET p == l + ((r - l) \div 2)
         IN  IF KeyLt(pivot, s[p + 1])
             THEN BinarySearch(s, pivot, l, p)
             ELSE BinarySearch(s, pivot, p + 1, r)

\* binarysort of list.sort: s[1..i-1] is in place, s[i..] is inserted one
\* element after the other
RECURSIVE binarysort(_, _)
binarysort(s, i) ==
    IF i > Len(s) THEN s
    ELSE LET l == BinarySearch(s, s[i], 0, i - 1)
         IN  binarysort(SubSeq(s, 1, l) \o <<s[i]>> \o SubSeq(s, l + 1, i - 1)
                            \o SubSeq(s, i + 1, Len(s)),
                        i + 1)

\* line 93: list.sort(key=margin, reverse=True) as CPython runs it on a list
\* of fewer than 64 elements: the list is reversed, its first run is found,
\* the rest is inserted by binary search with <, and the list is reversed
\* again.  On keys that are all numbers this is the stable descending sort,
\* whatever the interpreter; with a NaN among the keys the comparisons are
\* inconsistent and the order depends on how the run is found.
SortByMarginDesc(s, list_sort) ==
    IF Len(s) < 2 THEN s
    ELSE LET run == count_run(Reverse(s), list_sort)
         IN  Reverse(binarysort(run.keys, run.n + 1))

\* lines 87-95
Rerank(results, list_sort) ==
    LET products_with_margin_percentage == SelectSeq(results, HasMargin)
        products_without_margin_percentage == SelectSeq(results, LAMBDA r : ~HasMargin(r))
    IN  IF products_with_margin_percentage # <<>>
        THEN SortByMarginDesc(products_with_margin_percentage, list_sort)
                 \o products_without_margin_percentage
        ELSE results

ChunkIds(chunks) == {chunks[i].chunk_id : i \in 1..Len(chunks)}

\* variant: two glyphs are enough, and a chunk of any type is taken
IsReviewOfWithTwoStars(context_chunk, product) ==
    LET metadata_product_id == context_chunk.metadata.product_id
        metadata_product_name == IF context_chunk.metadata.product_name = None THEN ""
                                 ELSE Lower(context_chunk.metadata.product_name)
        product_name_to_match == IF Truthy(product.product_name)
                                 THEN Lower(product.product_name) ELSE ""
        matches_product ==
            \/ Truthy(metadata_product_id) /\ metadata_product_id = product.product_id
            \/ /\ ~Truthy(metadata_product_id)
               /\ Truthy(metadata_product_name)
               /\ metadata_product_name = product_name_to_match
    IN  /\ matches_product
        /\ Count(context_chunk.metadata.rating, StarPattern) >= 2

\* lines 115-129: is this used chunk a positive review of the product
IsPositiveReviewOf(context_chunk, product) ==
    LET metadata_product_id == context_chunk.metadata.product_id
        metadata_product_name == IF context_chunk.metadata.product_name = None THEN ""
                                 ELSE Lower(context_chunk.metadata.product_name)
        product_name_to_match == IF Truthy(product.product_name)
                                 THEN Lower(product.product_name) ELSE ""
        matches_product ==
            \/ Truthy(metadata_product_id) /\ metadata_product_id = product.product_id
            \/ /\ ~Truthy(metadata_product_id)
               /\ Truthy(metadata_product_name)
               /\ metadata_product_name = product_name_to_match
    IN  /\ context_chunk.source_type = "review"
        /\ matches_product
        /\ Count(context_chunk.metadata.rating, StarPattern) >= 3

\* lines 109-132: the inner loop for one product; st = [reviews, moved]
RECURSIVE PromoteFor(_, _, _)
PromoteFor(product, contexts, st) ==
    IF contexts = <<>> THEN st
    ELSE LET c == Head(contexts)
         IN  IF \/ c.chunk_id \in st.moved
                \/ c.chunk_id \in ChunkIds(st.reviews)
                \/ ~IsPositiveReviewOf(c, product)
             THEN PromoteFor(product, Tail(contexts), st)
             ELSE PromoteFor(product, Tail(contexts),
                             [reviews |-> Append(st.reviews, c),
                              moved |-> st.moved \cup {c.chunk_id}])

\* lines 103-132: the outer loop; returns [results, moved]
RECURSIVE PromoteAll(_, _, _)
PromoteAll(results, contexts, moved) ==
    IF results = <<>> THEN [results |-> <<>>, moved |-> moved]
    ELSE LET st == PromoteFor(Head(results).product, contexts,
                              [reviews |-> Head(results).supporting_reviews, moved |-> moved])
             rest == PromoteAll(Tail(results), contexts, st.moved)
         IN  [results |-> <<[Head(results) EXCEPT !.supporting_reviews = st.reviews]>>
                              \o rest.results,
              moved |-> rest.moved]

\* lines 134-137 and 141-144
final_top_level_contexts(contexts, moved) ==
    SelectSeq(contexts, LAMBDA c : c.chunk_id \notin moved)

\* lines 70-145 on the response of the generation stage
Reconcile(llm_response, catalog, list_sort) ==
    LET merged == IF llm_response.results # <<>>
                  THEN valid_results(llm_response.results, catalog)
                  ELSE llm_response.results
        ranked == IF merged # <<>> THEN Rerank(merged, list_sort) ELSE merged
        promoted == PromoteAll(ranked, llm_response.rag_contexts, {})
    IN  [llm_response EXCEPT
            !.results = promoted.results,
            !.rag_contexts = final_top_level_contexts(llm_response.rag_contexts, promoted.moved)]

(***************************************************************************)
(* search.conversational_search, lines 147-171: the session update         *)
(***************************************************************************)
MAX_HISTORY_TURNS == 10

Turn(role, text) == [role |-> role, parts |-> <<text>>]

RECURSIVE JoinWith(_, _)
JoinWith(parts, sep) ==
    IF parts = <<>> THEN <<>>
    ELSE IF Len(parts) = 1 THEN parts[1]
    ELSE parts[1] \o <<sep>> \o JoinWith(Tail(parts), sep)

\* str.strip() on a text held as a sequence of atoms
RECURSIVE Strip(_)
Strip(t) ==
    IF t = <<>> THEN t
    ELSE IF Head(t) = " " THEN Strip(Tail(t))
    ELSE IF t[Len(t)] = " " THEN Strip(SubSeq(t, 1, Len(t) - 1))
    ELSE t

\* lines 154-165: a text is a sequence of atoms; str atoms are wrapped
response_summary_for_history(resp) ==
    LET p1 == IF Truthy(resp.answer) THEN << <<resp.answer>> >> ELSE <<>>
        p2 == IF Truthy(resp.contextual_justification)
              THEN << <<resp.contextual_justification>> >> ELSE <<>>
        p3 == IF Len(resp.follow_up_questions) > 0
              THEN << <<"Follow-up questions: ">>
                      \o JoinWith([i \in 1..Len(resp.follow_up_questions) |->
                                      <<resp.follow_up_questions[i]>>], "; ") >>
              ELSE <<>>
        response_parts == IF p1 \o p2 \o p3 = <<>> THEN << <<"Okay.">> >> ELSE p1 \o p2 \o p3
    IN  Strip(JoinWith(response_parts, " "))

\* variant: the limit counts turn pairs of the history before the append
TruncatedKeepsOneMore(h) ==
    IF Len(h) > MAX_HISTORY_TURNS * 2 + 2
    THEN SubSeq(h, Len(h) - MAX_HISTORY_TURNS * 2 - 1, Len(h))
    ELSE h

\* variant: the slice keeps the oldest entries, history[:MAX_HISTORY_TURNS * 2]
TruncatedKeepsOldest(h) ==
    IF Len(h) > MAX_HISTORY_TURNS * 2
    THEN SubSeq(h, 1, MAX_HISTORY_TURNS * 2)
    ELSE h

\* line 171: history[-(MAX_HISTORY_TURNS * 2):]
Truncated(h) ==
    IF Len(h) > MAX_HISTORY_TURNS * 2
    THEN SubSeq(h, Len(h) - MAX_HISTORY_TURNS * 2 + 1, Len(h))
    ELSE h

\* variant: only the user's turn is appended
AppendedUserTurnOnly(store, sid, query, resp) ==
    (IF sid \in DOMAIN store THEN store[sid] ELSE <<>>) \o << Turn("user", <<query>>) >>

\* the history before truncation, lines 149-167
Appended(store, sid, query, resp) ==
    (IF sid \in DOMAIN store THEN store[sid] ELSE <<>>)
        \o << Turn("user", <<query>>), Turn("model", response_summary_for_history(resp)) >>

\* lines 147-171 as a function of the store
SessionUpdate(store, query, resp) ==
    LET sid == resp.session_id
    IN  (sid :> Truncated(Appended(store, sid, query, resp))) @@ store

(***************************************************************************)
(* llm_handler.get_conversational_response: the retry loop                 *)
(***************************************************************************)
max_retries == 3

\* exceptions, named by their class.  The two ValueErrors differ in their
\* message: the one raised at line 191, and the one the response.text
\* accessor raises when the reply holds no text part.
ValueErrorMarkers == "ValueError: LLM output not in expected JSON format (markers not found)."
ValueErrorNoText == "ValueError: response.text requires a valid Part"

\* raised by chat.send_message_async or response.text, lines 184-185,
\* before raw_llm_output is assigned
SendExceptions ==
    {ValueErrorNoText, "ResourceExhausted", "InternalServerError", "ServiceUnavailable",
     "DeadlineExceeded", "BlockedPromptException", "StopCandidateException",
     "GoogleAPIError", "Exception"}

\* variant: the stopped generation is handled like any other exception
NonRetriableOnlyBlocked == {"BlockedPromptException"}

\* lines 307-322: the two handlers that return at once
NonRetriable == {"BlockedPromptException", "StopCandidateException"}

\* a reply with text: does it hold '{' and '}', does json.loads accept the
\* slice, does SearchResponse(**json) validate, and the JSON object itself
RawOutput(markers, decodable, valid, json) ==
    [markers |-> markers, decodable |-> decodable, valid |-> valid, json |-> json]

\* the outcome of one attempt at the model: exc = "none" when text came back
Outcome(exc, raw) == [exc |-> exc, raw |-> raw]

\* lines 184-196: the exception the try body raises on this outcome, or "none"
RaisedBy(o) ==
    IF o.exc # "none" THEN o.exc
    ELSE IF ~o.raw.markers THEN ValueErrorMarkers
    ELSE IF ~o.raw.decodable THEN "JSONDecodeError"
    ELSE IF ~o.raw.valid THEN "ValidationError"
    ELSE "none"

\* line 185 and line 193: which locals the try body has bound so far
RawBoundAfter(loc, o) == loc.raw_bound \/ o.exc = "none"
JsonBoundAfter(loc, o) == loc.json_bound \/ (o.exc = "none" /\ o.raw.markers)

\* lines 290-298: the handler of this exception formats raw_llm_output or
\* json_string into its log line; reading an unbound local raises
HandlerRaises(loc, o) ==
    LET e == RaisedBy(o)
    IN  \/ e \in {"JSONDecodeError", ValueErrorMarkers, ValueErrorNoText} /\ ~RawBoundAfter(loc, o)
        \/ e = "ValidationError" /\ ~JsonBoundAfter(loc, o)

\* variant: line 345 without the test of the message, so that every
\* ValueError counts as a format error
DegradedMessageAnyValueError(last_exception) ==
    IF last_exception = "JSONDecodeError"
    THEN <<"Sorry, I had trouble processing that. Could you try rephrasing?",
           "LLM response parsing error after multiple attempts.">>
    ELSE IF last_exception = "ValidationError"
    THEN <<"Sorry, I encountered an issue with the response structure. Please try again.",
           "LLM response validation error after multiple attempts.">>
    ELSE IF last_exception \in {ValueErrorMarkers, ValueErrorNoText}
    THEN <<"Sorry, I couldn't generate a structured response. Please try again.",
           "LLM output format error after multiple attempts.">>
    ELSE IF last_exception = "ResourceExhausted"
    THEN <<"I'm a bit overwhelmed at the moment. Please try again in a few moments.",
           "Rate limit reached. Please try again later.">>
    ELSE IF last_exception \in {"InternalServerError", "ServiceUnavailable", "DeadlineExceeded"}
    THEN <<"There seems to be a temporary issue with the AI service. Please try again shortly.",
           "AI service unavailable or server error.">>
    ELSE IF last_exception = "GoogleAPIError"
    THEN <<"An issue occurred while communicating with the AI service. Please try again.",
           "AI service communication error.">>
    ELSE <<"Sorry, I'm having trouble connecting to my brain right now. Please try again later.",
           "LLM API call failed after multiple attempts.">>

\* lines 336-356: answer and justification of the response after the loop
DegradedMessage(last_exception) ==
    IF last_exception = "JSONDecodeError"
    THEN <<"Sorry, I had trouble processing that. Could you try rephrasing?",
           "LLM response parsing error after multiple attempts.">>
    ELSE IF last_exception = "ValidationError"
    THEN <<"Sorry, I encountered an issue with the response structure. Please try again.",
           "LLM response validation error after multiple attempts.">>
    ELSE IF last_exception = ValueErrorMarkers
    THEN <<"Sorry, I couldn't generate a structured response. Please try again.",
           "LLM output format error after multiple attempts.">>
    ELSE IF last_exception = "ResourceExhausted"
    THEN <<"I'm a bit overwhelmed at the moment. Please try again in a few moments.",
           "Rate limit reached. Please try again later.">>
    ELSE IF last_exception \in {"InternalServerError", "ServiceUnavailable", "DeadlineExceeded"}
    THEN <<"There seems to be a temporary issue with the AI service. Please try again shortly.",
           "AI service unavailable or server error.">>
    ELSE IF last_exception = "GoogleAPIError"
    THEN <<"An issue occurred while communicating with the AI service. Please try again.",
           "AI service communication error.">>
    ELSE <<"Sorry, I'm having trouble connecting to my brain right now. Please try again later.",
           "LLM API call failed after multiple attempts.">>

\* lines 359-364
DegradedResponse(session_id, last_exception) ==
    SearchResponse(session_id, <<>>, <<>>, <<>>,
                   DegradedMessage(last_exception)[1], DegradedMessage(last_exception)[2])

\* lines 307-322
RejectedResponse(session_id, e) ==
    IF e = "BlockedPromptException"
    THEN SearchResponse(session_id, <<>>, <<>>, <<>>,
                        "The request could not be processed due to content policy.",
                        "Content policy violation.")
    ELSE SearchResponse(session_id, <<>>, <<>>, <<>>,
                        "The response generation was stopped. This might be due to safety settings or other reasons.",
                        "Response generation incomplete.")

\* lines 47-56
NoKeyResponse(session_id) ==
    SearchResponse(session_id, <<>>, <<>>, <<>>,
                   "LLM service is not configured. Please provide an API key.",
                   "LLM service unavailable.")

(***************************************************************************)
(* State                                                                   *)
(***************************************************************************)
VARIABLES
    _user_conversations,    \* search.py line 20: session id -> list of turns
    _products_cache,        \* products.py line 15
    _products_cache_mtime,  \* products.py line 16: <<>> is None
    catalog_file,           \* the file at PRODUCT_CATALOG_FILE
    GOOGLE_API_KEY,         \* config.py line 9: is a key configured
    pc,                     \* per request: where its coroutine stands
    locals,                 \* per request: the locals of the handler and of
                            \* get_conversational_response
    http,                   \* per request: what the handler returned or raised,
                            \* and for a returned body its encoding as JSON
    uuids,                  \* number of uuid4() values drawn so far
    started,                \* number of requests received so far
    collection,             \* the Chroma collection "skincare_documents": its entries
    ingest,                 \* ingest_data.main: the data files, where the run
                            \* stands, its locals, and what earlier runs left
    build                   \* the interpreter and the libraries the process runs on

vars == <<_user_conversations, _products_cache, _products_cache_mtime, catalog_file,
          GOOGLE_API_KEY, pc, locals, http, uuids, started, collection, ingest, build>>

\* no ingestion has been started
NoIngest == [pc |-> "idle"]

Requests == {1, 2}

NoLocals ==
    [query |-> None, session_id |-> None, rag_results |-> <<>>, catalog |-> << >>,
     history |-> <<>>, attempt |-> 0, calls |-> 0, last_exception |-> None,
     raw_bound |-> FALSE, json_bound |-> FALSE, llm_response |-> None,
     attempt_log |-> <<>>, products_call |-> [op |-> "none"],
     response |-> None]

NoHttp == [status |-> 0]

\* str(uuid.uuid4()): a value no earlier call returned
Uuid4(n) == "uuid-" \o ToString(n)

(***************************************************************************)
(* search.conversational_search                                            *)
(***************************************************************************)
\* lines 23-29 and the call of the handler: the dependency resolves
ReceiveRequest(r, In) ==
    /\ pc[r] \in {"idle", "done"}
    /\ started < In.max_requests
    /\ \E q \in In.queries, sid \in In.sessions :
          locals' = [locals EXCEPT ![r] = [NoLocals EXCEPT !.query = q, !.session_id = sid]]
    /\ pc' = [pc EXCEPT ![r] = "handler"]
    /\ http' = [http EXCEPT ![r] = NoHttp]
    /\ started' = started + 1
    /\ UNCHANGED <<build, collection, ingest, _user_conversations, _products_cache, _products_cache_mtime,
                   catalog_file, GOOGLE_API_KEY, uuids>>

\* lines 26-32: initialize_vector_store_collection fails; the dependency
\* raises HTTPException(503) and the handler is never entered
VectorStoreUnavailable(r, In) ==
    /\ pc[r] \in {"idle", "done"}
    /\ started < In.max_requests
    /\ \E q \in In.queries, sid \in In.sessions :
          locals' = [locals EXCEPT ![r] = [NoLocals EXCEPT !.query = q, !.session_id = sid]]
    /\ pc' = [pc EXCEPT ![r] = "done"]
    /\ http' = [http EXCEPT ![r] =
                  [status |-> 503, is_search_response |-> FALSE,
                   detail |-> "Vector store is not available due to an initialization error.",
                   carries_exception_text |-> FALSE]]
    /\ started' = started + 1
    /\ UNCHANGED <<build, collection, ingest, _user_conversations, _products_cache, _products_cache_mtime,
                   catalog_file, GOOGLE_API_KEY, uuids>>

\* lines 177-179: an exception other than HTTPException leaves the handler
InternalError(e) ==
    [status |-> 500, is_search_response |-> FALSE,
     detail |-> <<"An unexpected error occurred during search: ", e>>,
     carries_exception_text |-> TRUE]

\* lines 43-47 raise (the embedding or the collection query fails)
RetrievalFails(r) ==
    /\ pc[r] = "handler"
    /\ pc' = [pc EXCEPT ![r] = "done"]
    /\ http' = [http EXCEPT ![r] = InternalError("query_vector_store failed")]
    /\ UNCHANGED <<build, collection, ingest, _user_conversations, _products_cache, _products_cache_mtime,
                   catalog_file, GOOGLE_API_KEY, locals, uuids, started>>

\* lines 49-57: the catalogue the request works with
CatalogForRequest == get_products_from_file(_products_cache, _products_cache_mtime, catalog_file)

LoadCatalog ==
    /\ _products_cache' = CatalogForRequest.cache
    /\ _products_cache_mtime' = CatalogForRequest.mtime

RequestCatalog ==
    IF CatalogForRequest.raised THEN << >> ELSE product_catalog_dict(CatalogForRequest.value)

\* lines 59-61
history_for_llm(session_id) ==
    IF Truthy(session_id) /\ session_id \in DOMAIN _user_conversations
    THEN _user_conversations[session_id] ELSE <<>>

\* The encoding of a value returned by a handler that declares a
\* response_model (search.py 35, products.py 47), as far as the margins of
\* the Product models in it go.  A number or None is written as it is.  The
\* float NaN has no form in JSON: depending on the versions of the framework
\* and of pydantic it is written as null, or the encoder raises after the
\* handler has returned and the client is sent the 500 of an unhandled
\* exception.
serialize_response(products, json_nan) ==
    IF \A i \in 1..Len(products) : products[i].margin_percentage # <<NaN>>
    THEN [sent |-> TRUE, products |-> products]
    ELSE IF json_nan = "raises"
    THEN [sent |-> FALSE]
    ELSE [sent |-> TRUE,
          products |-> [i \in 1..Len(products) |->
                          IF products[i].margin_percentage = <<NaN>>
                          THEN [products[i] EXCEPT !.margin_percentage = <<>>]
                          ELSE products[i]]]

\* line 173: the handler returns the SearchResponse final
Returned(final) ==
    [status |-> 200, is_search_response |-> TRUE, body |-> final,
     delivery |-> serialize_response([i \in 1..Len(final.results) |-> final.results[i].product],
                                     build.json_nan)]

\* lines 70-173 for request r holding llm_response: everything after the
\* await of line 63 runs without suspension
Complete(r, loc, llm_response) ==
    LET final == Reconcile(llm_response, loc.catalog, build.list_sort)
    IN  /\ _user_conversations' = SessionUpdate(_user_conversations, loc.query, final)
        /\ http' = [http EXCEPT ![r] = Returned(final)]
        /\ locals' = [locals EXCEPT ![r] = [loc EXCEPT !.llm_response = llm_response]]
        /\ pc' = [pc EXCEPT ![r] = "done"]

\* rag_pipeline lines 93-99: the dictionary made of an entry the query returned
FormattedResult(e) == RawDict(e.id, e.document, e.metadata)

\* the entries a batch of results was made of
Stored(batch) ==
    {[id |-> batch[i].id, document |-> batch[i].text_chunk, metadata |-> batch[i].metadata] :
        i \in 1..Len(batch)}

\* rag_pipeline lines 82-100 as called at search.py 43-47: the entries of the
\* collection (it holds fewer than n_results = 10), formatted, in the order of
\* their distance to the query; In.batches holds the rankings considered
query_vector_store(In) == {batch \in In.batches : Stored(batch) = collection}

\* lines 43-68 up to the first suspension, at line 184
BeginSearch(r, In) ==
    /\ pc[r] = "handler"
    /\ GOOGLE_API_KEY
    /\ LoadCatalog
    /\ \E batch \in query_vector_store(In) :
          locals' = [locals EXCEPT ![r] =
                       [@ EXCEPT !.rag_results = batch,
                                 !.catalog = RequestCatalog,
                                 !.history = history_for_llm(locals[r].session_id)]]
    /\ pc' = [pc EXCEPT ![r] = "llm"]
    /\ UNCHANGED <<build, collection, ingest, _user_conversations, catalog_file, GOOGLE_API_KEY, http, uuids, started>>

\* lines 43-173 when no key is configured: get_conversational_response
\* returns at line 49 without suspending
SearchWithoutKey(r, In) ==
    /\ pc[r] = "handler"
    /\ ~GOOGLE_API_KEY
    /\ LoadCatalog
    /\ \E batch \in query_vector_store(In) :
          Complete(r, [locals[r] EXCEPT !.rag_results = batch,
                                        !.catalog = RequestCatalog,
                                        !.history = history_for_llm(locals[r].session_id)],
                   NoKeyResponse(locals[r].session_id))
    /\ UNCHANGED <<build, collection, ingest, catalog_file, GOOGLE_API_KEY, uuids, started>>

\* the locals after one more pass through the try body on outcome o;
\* calls and attempt_log record the invocations of the model and how each
\* ended ("none": the reply parsed and validated)
AfterAttempt(loc, o) ==
    [loc EXCEPT !.calls = @ + 1,
                !.attempt_log = Append(@, RaisedBy(o)),
                !.raw_bound = RawBoundAfter(loc, o),
                !.json_bound = JsonBoundAfter(loc, o)]

\* lines 184-288 then 70-173: the model's reply parses and validates
AttemptSucceeds(r, In) ==
    /\ pc[r] = "llm"
    /\ \E o \in In.outcomes :
          /\ RaisedBy(o) = "none"
          /\ Complete(r, AfterAttempt(locals[r], o),
                      ParsedResponse(o.raw.json, locals[r].rag_results,
                                     locals[r].session_id, Uuid4(uuids + 1)))
          /\ uuids' = IF UsesUuid(o.raw.json, locals[r].session_id) THEN uuids + 1 ELSE uuids
    /\ UNCHANGED <<build, collection, ingest, _products_cache, _products_cache_mtime, catalog_file, GOOGLE_API_KEY, started>>

\* variant: the loop bound off by one, the coroutine sleeps after the third
\* failure too and a fourth attempt is started
AttemptFailsOnceMore(r, In) ==
    /\ pc[r] = "llm"
    /\ locals[r].attempt < max_retries
    /\ \E o \in In.outcomes :
          /\ RaisedBy(o) \notin {"none"} \cup NonRetriable
          /\ ~HandlerRaises(locals[r], o)
          /\ locals' = [locals EXCEPT ![r] =
                           [AfterAttempt(locals[r], o) EXCEPT !.last_exception = RaisedBy(o)]]
    /\ pc' = [pc EXCEPT ![r] = "sleep"]
    /\ UNCHANGED <<build, collection, ingest, _user_conversations, _products_cache, _products_cache_mtime,
                   catalog_file, GOOGLE_API_KEY, http, uuids, started>>

\* lines 184-332: the call of attempt number locals[r].attempt returns or
\* raises a retriable failure with attempts left; the except clause binds
\* last_exception and the coroutine suspends at the sleep of line 332, the
\* loop variable still at this attempt
AttemptFails(r, In) ==
    /\ pc[r] = "llm"
    /\ locals[r].attempt < max_retries - 1
    /\ \E o \in In.outcomes :
          /\ RaisedBy(o) \notin {"none"} \cup NonRetriable
          /\ ~HandlerRaises(locals[r], o)
          /\ locals' = [locals EXCEPT ![r] =
                           [AfterAttempt(locals[r], o) EXCEPT !.last_exception = RaisedBy(o)]]
    /\ pc' = [pc EXCEPT ![r] = "sleep"]
    /\ UNCHANGED <<build, collection, ingest, _user_conversations, _products_cache, _products_cache_mtime,
                   catalog_file, GOOGLE_API_KEY, http, uuids, started>>

\* lines 332 and 181-184: the timer of the sleep fires, the loop goes to its
\* next pass and the coroutine suspends in the call of the next attempt
RetryAfterSleep(r) ==
    /\ pc[r] = "sleep"
    /\ locals' = [locals EXCEPT ![r].attempt = @ + 1]
    /\ pc' = [pc EXCEPT ![r] = "llm"]
    /\ UNCHANGED <<build, collection, ingest, _user_conversations, _products_cache, _products_cache_mtime,
                   catalog_file, GOOGLE_API_KEY, http, uuids, started>>

\* lines 184-364 then 70-173: a retriable failure on the last attempt
AttemptExhausts(r, In) ==
    /\ pc[r] = "llm"
    /\ locals[r].attempt = max_retries - 1
    /\ \E o \in In.outcomes :
          /\ RaisedBy(o) \notin {"none"} \cup NonRetriable
          /\ ~HandlerRaises(locals[r], o)
          /\ LET loc == [AfterAttempt(locals[r], o) EXCEPT !.last_exception = RaisedBy(o)]
             IN  Complete(r, loc, DegradedResponse(loc.session_id, loc.last_exception))
    /\ UNCHANGED <<build, collection, ingest, _products_cache, _products_cache_mtime, catalog_file, GOOGLE_API_KEY,
                   uuids, started>>

\* lines 307-322 then 70-173: content-policy block or stopped generation
AttemptRejected(r, In) ==
    /\ pc[r] = "llm"
    /\ \E o \in In.outcomes :
          /\ RaisedBy(o) \in NonRetriable
          /\ Complete(r, AfterAttempt(locals[r], o),
                      RejectedResponse(locals[r].session_id, RaisedBy(o)))
    /\ UNCHANGED <<build, collection, ingest, _products_cache, _products_cache_mtime, catalog_file, GOOGLE_API_KEY,
                   uuids, started>>

\* variant: the user's turn is stored before the model is called
HandlerCrashesAfterUserTurn(r, In) ==
    /\ pc[r] = "llm"
    /\ \E o \in In.outcomes :
          /\ RaisedBy(o) \notin {"none"} \cup NonRetriable
          /\ HandlerRaises(locals[r], o)
          /\ locals' = [locals EXCEPT ![r] = AfterAttempt(locals[r], o)]
    /\ pc' = [pc EXCEPT ![r] = "done"]
    /\ http' = [http EXCEPT ![r] = InternalError("UnboundLocalError")]
    /\ _user_conversations' =
          ("s1" :> (history_for_llm("s1") \o << Turn("user", <<locals[r].query>>) >>))
              @@ _user_conversations
    /\ UNCHANGED <<build, collection, ingest, _products_cache, _products_cache_mtime,
                   catalog_file, GOOGLE_API_KEY, uuids, started>>

\* lines 290-298: the except clause itself raises (UnboundLocalError); the
\* exception leaves get_conversational_response and reaches line 177
HandlerCrashes(r, In) ==
    /\ pc[r] = "llm"
    /\ \E o \in In.outcomes :
          /\ RaisedBy(o) \notin {"none"} \cup NonRetriable
          /\ HandlerRaises(locals[r], o)
          /\ locals' = [locals EXCEPT ![r] = AfterAttempt(locals[r], o)]
    /\ pc' = [pc EXCEPT ![r] = "done"]
    /\ http' = [http EXCEPT ![r] = InternalError("UnboundLocalError")]
    /\ UNCHANGED <<build, collection, ingest, _user_conversations, _products_cache, _products_cache_mtime,
                   catalog_file, GOOGLE_API_KEY, uuids, started>>

(***************************************************************************)
(* api/routers/products.py: the two endpoints, and the file changing       *)
(***************************************************************************)
\* what a call of get_products_from_file found and did; seq numbers the
\* requests in the order they were served
ProductsCall(seq, previous, cache, cache_mtime, file) ==
    LET res == get_products_from_file(cache, cache_mtime, file)
    IN  [op |-> "get_products", seq |-> seq, previous |-> previous,
         cache_before |-> cache, mtime_before |-> cache_mtime, file |-> file,
         read |-> res.read, raised |-> res.raised, value |-> res.value,
         cache_after |-> res.cache, mtime_after |-> res.mtime]

\* the request of the products router served last: which endpoint, and the
\* timestamp the cache held when it was called
LastCall ==
    IF \E q \in Requests : /\ locals[q].products_call.op # "none"
                            /\ locals[q].products_call.seq = started
    THEN LET q == CHOOSE q \in Requests : /\ locals[q].products_call.op # "none"
                                          /\ locals[q].products_call.seq = started
         IN  [op |-> locals[q].products_call.op,
              mtime_before |-> locals[q].products_call.mtime_before]
    ELSE [op |-> "none", mtime_before |-> <<>>]

\* lines 47-58: GET /products; the handler has no suspension point
ListProducts(r, In) ==
    /\ pc[r] \in {"idle", "done"}
    /\ started < In.max_requests
    /\ LoadCatalog
    /\ locals' = [locals EXCEPT ![r] =
                    [NoLocals EXCEPT !.products_call =
                        ProductsCall(started + 1, LastCall, _products_cache,
                                     _products_cache_mtime, catalog_file)]]
    /\ http' = [http EXCEPT ![r] =
                  IF CatalogForRequest.raised
                  THEN [status |-> 500, is_search_response |-> FALSE,
                        detail |-> IF catalog_file.exists
                                   THEN "Error loading product catalog"
                                   ELSE "Product catalog file not found",
                        carries_exception_text |-> catalog_file.exists]
                  ELSE [status |-> 200, is_search_response |-> FALSE,
                        body |-> CatalogForRequest.value,
                        delivery |-> serialize_response(CatalogForRequest.value,
                                                        build.json_nan)]]
    /\ pc' = [pc EXCEPT ![r] = "done"]
    /\ started' = started + 1
    /\ UNCHANGED <<build, collection, ingest, _user_conversations, catalog_file, GOOGLE_API_KEY, uuids>>

\* variant: the list is emptied and the timestamp is kept
ClearKeepsTimestamp(r, In) ==
    /\ pc[r] \in {"idle", "done"}
    /\ started < In.max_requests
    /\ _products_cache' = <<>>
    /\ _products_cache_mtime' = _products_cache_mtime
    /\ locals' = [locals EXCEPT ![r] =
                    [NoLocals EXCEPT !.products_call =
                        [op |-> "clear_product_cache", seq |-> started + 1,
                         mtime_before |-> _products_cache_mtime]]]
    /\ http' = [http EXCEPT ![r] = [status |-> 204]]
    /\ pc' = [pc EXCEPT ![r] = "done"]
    /\ started' = started + 1
    /\ UNCHANGED <<build, collection, ingest, _user_conversations, catalog_file, GOOGLE_API_KEY, uuids>>

\* lines 60-66: POST /products/clear-cache
clear_product_cache(r, In) ==
    /\ pc[r] \in {"idle", "done"}
    /\ started < In.max_requests
    /\ _products_cache' = <<>>
    /\ _products_cache_mtime' = <<>>
    /\ locals' = [locals EXCEPT ![r] =
                    [NoLocals EXCEPT !.products_call =
                        [op |-> "clear_product_cache", seq |-> started + 1,
                         mtime_before |-> _products_cache_mtime]]]
    /\ http' = [http EXCEPT ![r] = [status |-> 204]]
    /\ pc' = [pc EXCEPT ![r] = "done"]
    /\ started' = started + 1
    /\ UNCHANGED <<build, collection, ingest, _user_conversations, catalog_file, GOOGLE_API_KEY, uuids>>

\* the file at PRODUCT_CATALOG_FILE is edited, replaced, removed or put back
\* by whoever maintains it
CatalogFileChanges(In) ==
    /\ catalog_file' \in In.files \ {catalog_file}
    /\ UNCHANGED <<build, collection, ingest, _user_conversations, _products_cache, _products_cache_mtime,
                   GOOGLE_API_KEY, pc, locals, http, uuids, started>>

(***************************************************************************)
(* search.conversational_search statement by statement: the stages of one  *)
(* request, each leaving its result in the locals of the handler.  Between *)
(* two stages the coroutine keeps the event loop, except at the await of   *)
(* line 63; the catalogue file belongs to whoever maintains it and may     *)
(* change at any moment.                                                   *)
(***************************************************************************)
\* lines 43-47: the retrieval
Retrieve(r, In) ==
    /\ pc[r] = "handler"
    /\ \E batch \in query_vector_store(In) :
          locals' = [locals EXCEPT ![r].rag_results = batch]
    /\ pc' = [pc EXCEPT ![r] = "retrieved"]
    /\ UNCHANGED <<build, collection, ingest, _user_conversations, _products_cache,
                   _products_cache_mtime, catalog_file, GOOGLE_API_KEY, http, uuids, started>>

\* lines 49-57: the catalogue is read through the Catalog Cache and kept as
\* product_catalog_dict
ConsultCatalog(r) ==
    /\ pc[r] = "retrieved"
    /\ LoadCatalog
    /\ locals' = [locals EXCEPT ![r].catalog = RequestCatalog]
    /\ pc' = [pc EXCEPT ![r] = "catalogued"]
    /\ UNCHANGED <<build, collection, ingest, _user_conversations, catalog_file, GOOGLE_API_KEY,
                   http, uuids, started>>

\* lines 59-63: the history of the session is composed and
\* get_conversational_response is called; with a key it suspends at
\* llm_handler line 184, without one it is about to return at line 49
ComposeHistory(r) ==
    /\ pc[r] = "catalogued"
    /\ locals' = [locals EXCEPT ![r].history = history_for_llm(locals[r].session_id)]
    /\ pc' = [pc EXCEPT ![r] = IF GOOGLE_API_KEY THEN "llm" ELSE "composed"]
    /\ UNCHANGED <<build, collection, ingest, _user_conversations, _products_cache,
                   _products_cache_mtime, catalog_file, GOOGLE_API_KEY, http, uuids, started>>

\* lines 63-68: get_conversational_response returns llm_response: the
\* canned response without a key (llm_handler 47-56), the parsed and
\* validated reply (184-288), the response to a rejection (307-322) or the
\* degraded response after the last attempt (359-364)
Generate(r, In) ==
    /\ \/ /\ pc[r] = "composed"
          /\ locals' = [locals EXCEPT ![r] =
                           [@ EXCEPT !.llm_response = NoKeyResponse(locals[r].session_id),
                                     !.response = NoKeyResponse(locals[r].session_id)]]
          /\ uuids' = uuids
       \/ /\ pc[r] = "llm"
          /\ \E o \in In.outcomes :
                LET raised == RaisedBy(o)
                    exhausted == /\ raised \notin {"none"} \cup NonRetriable
                                 /\ locals[r].attempt = max_retries - 1
                                 /\ ~HandlerRaises(locals[r], o)
                    resp == IF raised = "none"
                            THEN ParsedResponse(o.raw.json, locals[r].rag_results,
                                                locals[r].session_id, Uuid4(uuids + 1))
                            ELSE IF raised \in NonRetriable
                            THEN RejectedResponse(locals[r].session_id, raised)
                            ELSE DegradedResponse(locals[r].session_id, raised)
                IN  /\ raised \in {"none"} \cup NonRetriable \/ exhausted
                    /\ locals' = [locals EXCEPT ![r] =
                                     [AfterAttempt(locals[r], o) EXCEPT
                                         !.last_exception = IF exhausted THEN raised ELSE @,
                                         !.llm_response = resp,
                                         !.response = resp]]
                    /\ uuids' = IF raised = "none" /\ UsesUuid(o.raw.json, locals[r].session_id)
                                THEN uuids + 1 ELSE uuids
    /\ pc' = [pc EXCEPT ![r] = "generated"]
    /\ UNCHANGED <<build, collection, ingest, _user_conversations, _products_cache,
                   _products_cache_mtime, catalog_file, GOOGLE_API_KEY, http, started>>

\* variant: the merge reads the catalogue itself, as it is when the model
\* has replied
MergeWithCatalogOfTheHour(r) ==
    /\ pc[r] = "generated"
    /\ LoadCatalog
    /\ locals' = [locals EXCEPT ![r].response.results =
                     IF @ # <<>> THEN valid_results(@, RequestCatalog) ELSE @]
    /\ pc' = [pc EXCEPT ![r] = "merged"]
    /\ UNCHANGED <<build, collection, ingest, _user_conversations, catalog_file, GOOGLE_API_KEY,
                   http, uuids, started>>

\* lines 70-85: the results are validated and merged against
\* product_catalog_dict, the catalogue read at lines 52-53
MergeWithCatalog(r) ==
    /\ pc[r] = "generated"
    /\ locals' = [locals EXCEPT ![r].response.results =
                     IF @ # <<>> THEN valid_results(@, locals[r].catalog) ELSE @]
    /\ pc' = [pc EXCEPT ![r] = "merged"]
    /\ UNCHANGED <<build, collection, ingest, _user_conversations, _products_cache,
                   _products_cache_mtime, catalog_file, GOOGLE_API_KEY, http, uuids, started>>

\* lines 87-95: the re-ranking of the merged results
RerankByMargin(r) ==
    /\ pc[r] = "merged"
    /\ locals' = [locals EXCEPT ![r].response.results =
                     IF @ # <<>> THEN Rerank(@, build.list_sort) ELSE @]
    /\ pc' = [pc EXCEPT ![r] = "ranked"]
    /\ UNCHANGED <<build, collection, ingest, _user_conversations, _products_cache,
                   _products_cache_mtime, catalog_file, GOOGLE_API_KEY, http, uuids, started>>

\* lines 98-145: the evidence reconciliation of the ranked results
ReconcileEvidence(r) ==
    /\ pc[r] = "ranked"
    /\ LET resp == locals[r].response
           promoted == PromoteAll(resp.results, resp.rag_contexts, {})
       IN  locals' = [locals EXCEPT ![r].response =
                         [resp EXCEPT
                             !.results = promoted.results,
                             !.rag_contexts =
                                 final_top_level_contexts(resp.rag_contexts, promoted.moved)]]
    /\ pc' = [pc EXCEPT ![r] = "reconciled"]
    /\ UNCHANGED <<build, collection, ingest, _user_conversations, _products_cache,
                   _products_cache_mtime, catalog_file, GOOGLE_API_KEY, http, uuids, started>>

\* lines 147-173: the session update and the return
UpdateSession(r) ==
    /\ pc[r] = "reconciled"
    /\ _user_conversations' =
          SessionUpdate(_user_conversations, locals[r].query, locals[r].response)
    /\ http' = [http EXCEPT ![r] = Returned(locals[r].response)]
    /\ pc' = [pc EXCEPT ![r] = "done"]
    /\ UNCHANGED <<build, collection, ingest, _products_cache, _products_cache_mtime, catalog_file,
                   GOOGLE_API_KEY, locals, uuids, started>>

(***************************************************************************)
(* rag_pipeline.chunk_parsed_documents                                     *)
(***************************************************************************)
TEXT_CHUNK_SIZE == 512
TEXT_CHUNK_OVERLAP == 50

ParsedDocument(id, stype, content, meta) ==
    [id |-> id, source_type |-> stype, content |-> content, metadata |-> meta]

Min(a, b) == IF a <= b THEN a ELSE b

\* Python text[start:end] for 0 <= start <= end; a text is a sequence of
\* characters
PySlice(text, start, end) == SubSeq(text, start + 1, Min(end, Len(text)))

\* variant: the window advances by its full size, consecutive chunks share
\* nothing
RECURSIVE ChunkTextsWithoutOverlap(_, _)
ChunkTextsWithoutOverlap(text, start) ==
    IF start >= Len(text) THEN <<>>
    ELSE <<PySlice(text, start, start + TEXT_CHUNK_SIZE)>>
             \o ChunkTextsWithoutOverlap(text, start + TEXT_CHUNK_SIZE)

\* lines 25-43: the chunk texts of one document, the window standing at start
RECURSIVE chunk_texts(_, _)
chunk_texts(text, start) ==
    IF start >= Len(text) THEN <<>>
    ELSE <<PySlice(text, start, start + TEXT_CHUNK_SIZE)>>
             \o chunk_texts(text, start + TEXT_CHUNK_SIZE - TEXT_CHUNK_OVERLAP)

\* variant: keys of the parent metadata win over the chunk's own two keys
ChunksKeepParentKeys(p_doc, n) ==
    LET texts == chunk_texts(p_doc.content, 0)
    IN  [k \in 1..Len(texts) |->
            DocumentChunk(Uuid4(n + k), p_doc.id, texts[k], p_doc.source_type,
                          [p_doc.metadata EXCEPT
                              !.original_doc_id = IF @ = None THEN p_doc.id ELSE @,
                              !.source_type = IF @ = None THEN p_doc.source_type ELSE @])]

\* lines 24-40 for one document; chunk ids are uuid4 values, n were drawn
\* before
ChunksOfDocument(p_doc, n) ==
    LET texts == chunk_texts(p_doc.content, 0)
    IN  [k \in 1..Len(texts) |->
            DocumentChunk(Uuid4(n + k), p_doc.id, texts[k], p_doc.source_type,
                          [p_doc.metadata EXCEPT !.original_doc_id = p_doc.id,
                                                 !.source_type = p_doc.source_type])]

\* lines 21-45
RECURSIVE chunk_parsed_documents(_, _)
chunk_parsed_documents(parsed_docs, n) ==
    IF parsed_docs = <<>> THEN <<>>
    ELSE LET first == ChunksOfDocument(Head(parsed_docs), n)
         IN  first \o chunk_parsed_documents(Tail(parsed_docs), n + Len(first))

\* the chunker applied to the documents at hand
ChunkDocuments ==
    /\ ingest.pc = "chunker"
    /\ ~ingest.chunked
    /\ LET doc_chunks == chunk_parsed_documents(ingest.parsed_docs, uuids)
       IN  /\ ingest' = [ingest EXCEPT !.doc_chunks = doc_chunks, !.chunked = TRUE]
           /\ uuids' = uuids + Len(doc_chunks)
    /\ UNCHANGED <<build, _user_conversations, _products_cache, _products_cache_mtime, catalog_file,
                   GOOGLE_API_KEY, pc, locals, http, started, collection>>

(***************************************************************************)
(* ingest_data.main                                                        *)
(***************************************************************************)
\* the four data files as the loaders see them: a file that is missing, or
\* the documents its loader makes of it
SourceFile(ex, docs) == [exists |-> ex, docs |-> docs, readable |-> TRUE]

\* lines 32-67: all_parsed_docs
all_parsed_docs(sources) ==
    (IF sources.catalog.exists THEN sources.catalog.docs ELSE <<>>)
        \o (IF sources.brand_info.exists THEN sources.brand_info.docs ELSE <<>>)
        \o (IF sources.reviews.exists THEN sources.reviews.docs ELSE <<>>)
        \o (IF sources.tickets.exists THEN sources.tickets.docs ELSE <<>>)

\* rag_pipeline lines 61-77: the entries collection.add stores for the chunks
Entries(chunks) ==
    {[id |-> chunks[k].chunk_id, document |-> chunks[k].text_chunk,
      metadata |-> chunks[k].metadata] : k \in 1..Len(chunks)}

Ids(entries) == {e.id : e \in entries}

\* lines 28-78: the sources are loaded and chunked.  The catalogue is read
\* first, at line 38 and outside any try: a file pandas.read_csv cannot read
\* ends main by its exception before a document is counted.  The loaders of
\* the three text files catch their own exceptions.  Without documents or
\* without chunks main returns.
IngestLoad(In) ==
    /\ ingest.pc \in {"idle", "ended"}
    /\ Len(ingest.runs) < In.max_runs
    /\ LET docs == all_parsed_docs(ingest.sources)
           doc_chunks == chunk_parsed_documents(docs, uuids)
           returns(outcome) ==
               [ingest EXCEPT
                   !.pc = "ended", !.parsed_docs = <<>>, !.doc_chunks = <<>>,
                   !.before = collection,
                   !.runs = Append(@, [outcome |-> outcome, inserted |-> FALSE,
                                       sources |-> ingest.sources,
                                       chunk_ids |-> {}, before |-> collection,
                                       after |-> collection])]
       IN  IF ingest.sources.catalog.exists /\ ~ingest.sources.catalog.readable
           THEN /\ uuids' = uuids
                /\ ingest' = returns("raised")
           ELSE IF docs = <<>>
           THEN /\ uuids' = uuids
                /\ ingest' = returns("aborted")
           ELSE /\ uuids' = uuids + Len(doc_chunks)
                /\ IF doc_chunks = <<>>
                   THEN ingest' = [returns("aborted") EXCEPT !.parsed_docs = docs]
                   ELSE ingest' = [ingest EXCEPT !.pc = "clearing", !.parsed_docs = docs,
                                                 !.doc_chunks = doc_chunks,
                                                 !.before = collection]
    /\ UNCHANGED <<build, _user_conversations, _products_cache, _products_cache_mtime, catalog_file,
                   GOOGLE_API_KEY, pc, locals, http, started, collection>>

\* the run ends here: main returned ("completed") or an exception left it
\* ("raised")
EndRun(outcome, inserted, after) ==
    ingest' = [ingest EXCEPT
                 !.pc = "ended",
                 !.runs = Append(@, [outcome |-> outcome, inserted |-> inserted,
                                     sources |-> ingest.sources,
                                     chunk_ids |-> Ids(Entries(ingest.doc_chunks)),
                                     before |-> ingest.before, after |-> after])]

\* line 80 or lines 83-85 raise: the store cannot be opened, read or cleared
IngestClearFails ==
    /\ ingest.pc = "clearing"
    /\ EndRun("raised", FALSE, collection)
    /\ UNCHANGED <<build, _user_conversations, _products_cache, _products_cache_mtime, catalog_file,
                   GOOGLE_API_KEY, pc, locals, http, uuids, started, collection>>

\* variant: the existing entries are left in the collection
IngestClearKeepsEntries ==
    /\ ingest.pc = "clearing"
    /\ collection' = collection
    /\ ingest' = [ingest EXCEPT !.pc = "adding"]
    /\ UNCHANGED <<build, _user_conversations, _products_cache, _products_cache_mtime, catalog_file,
                   GOOGLE_API_KEY, pc, locals, http, uuids, started>>

\* lines 80-88: every existing id is deleted
IngestClear ==
    /\ ingest.pc = "clearing"
    /\ collection' = {e \in collection : e.id \notin Ids(collection)}
    /\ ingest' = [ingest EXCEPT !.pc = "adding"]
    /\ UNCHANGED <<build, _user_conversations, _products_cache, _products_cache_mtime, catalog_file,
                   GOOGLE_API_KEY, pc, locals, http, uuids, started>>

\* line 90, rag_pipeline line 64: embedding_model.encode raises, outside the
\* try of add_chunks_to_vector_store, and main is left by the exception
IngestEncodeFails ==
    /\ ingest.pc = "adding"
    /\ EndRun("raised", FALSE, collection)
    /\ UNCHANGED <<build, _user_conversations, _products_cache, _products_cache_mtime, catalog_file,
                   GOOGLE_API_KEY, pc, locals, http, uuids, started, collection>>

\* line 90, rag_pipeline lines 71-80: collection.add raises; the error is
\* logged and main goes on to line 92
IngestAddFails ==
    /\ ingest.pc = "adding"
    /\ EndRun("completed", FALSE, collection)
    /\ UNCHANGED <<build, _user_conversations, _products_cache, _products_cache_mtime, catalog_file,
                   GOOGLE_API_KEY, pc, locals, http, uuids, started, collection>>

\* lines 90-92: the chunks are stored
IngestAdd ==
    /\ ingest.pc = "adding"
    /\ collection' = collection \cup Entries(ingest.doc_chunks)
    /\ EndRun("completed", TRUE, collection \cup Entries(ingest.doc_chunks))
    /\ UNCHANGED <<build, _user_conversations, _products_cache, _products_cache_mtime, catalog_file,
                   GOOGLE_API_KEY, pc, locals, http, uuids, started>>

(***************************************************************************)
(* api/main.py: lifespan                                                   *)
(***************************************************************************)
\* lines 14-20: the yield is reached when ingest_data_main has returned; an
\* exception of the ingestion is raised again and the application exits
StartupComplete ==
    /\ ingest.pc = "ended"
    /\ ingest.runs[Len(ingest.runs)].outcome # "raised"

\* variant: requests are taken while the startup has not finished
ServeRequestDuringStartup(r, In) ==
    \/ ReceiveRequest(r, In)
    \/ VectorStoreUnavailable(r, In)

\* a request reaches the router once the startup part of lifespan is over
ServeRequest(r, In) ==
    /\ StartupComplete
    /\ \/ ReceiveRequest(r, In)
       \/ VectorStoreUnavailable(r, In)

(***************************************************************************)
(* Inputs: what the model may answer                                       *)
(***************************************************************************)
MaxResults == 2
MaxUsed == 1

\* the product object of a model result: only the id is taken from the
\* catalogue's id space, every other field is the model's own assertion
LlmProduct(id) ==
    [product_id |-> id, product_name |-> "LLM Invented Name", category |-> "LLM category",
     description |-> "LLM description", price_usd |-> <<1>>, currency_code |-> "EUR",
     margin_percentage |-> <<99>>, key_ingredients |-> <<"LLM ingredient">>,
     tags |-> <<"LLM tag">>, image_url |-> "llm.png"]

\* a chunk record the model writes into a result's supporting_reviews field
LlmChunk ==
    DocumentChunk("llm-chunk", "llm-doc", "LLM invented review", "review",
                  Metadata("llm-doc", "review", None, "Bright C Serum", Repeat(StarPattern, 5)))

\* the same, a chunk record that claims to be product information
LlmChunkInfo ==
    DocumentChunk("llm-info", "llm-doc", "LLM invented product text", "product_info",
                  Metadata("llm-doc", "product_info", "P001", "Bright C Serum", <<>>))

LlmResult(id, sup_ids, sup_chunks) ==
    [product |-> LlmProduct(id), justification |-> "because",
     supporting_review_chunk_ids |-> sup_ids, supporting_reviews |-> sup_chunks]

LlmJson(sid, results, used, fq, ans, cj) ==
    [session_id |-> sid, results |-> results, used_rag_context_ids |-> used,
     follow_up_questions |-> fq, answer |-> ans, contextual_justification |-> cj]

LlmProductIds == {"P001", "P002", "P003", "PX"}
\* what a result may cite as its supporting reviews, and the ids the reply
\* may list as used
LlmSupportingChoices == {<<>>, <<"r1">>}
LlmUsedIds == {"r1", "c1"}

LlmResults ==
    {LlmResult(id, sup, <<>>) : id \in LlmProductIds,
                                sup \in LlmSupportingChoices}
      \cup {LlmResult("P001", <<>>, <<LlmChunk>>), LlmResult("P001", <<>>, <<LlmChunkInfo>>)}

\* replies for the reconciliation: every shape of results and used ids
ReconcileJson ==
    {LlmJson(None, res, used, <<"What is your skin type?">>, None, "Here are some options.") :
        res \in SeqsUpTo(LlmResults, MaxResults), used \in SeqsUpTo(LlmUsedIds, MaxUsed)}

EmptyJson == LlmJson(None, <<>>, <<>>, <<>>, None, None)

Replies(jsons) == {Outcome("none", RawOutput(TRUE, TRUE, TRUE, j)) : j \in jsons}
NoMarkersReply == Outcome("none", RawOutput(FALSE, FALSE, FALSE, EmptyJson))
UndecodableReply == Outcome("none", RawOutput(TRUE, FALSE, FALSE, EmptyJson))
InvalidReply == Outcome("none", RawOutput(TRUE, TRUE, FALSE, EmptyJson))
Raises(excs) == {Outcome(e, RawOutput(FALSE, FALSE, FALSE, EmptyJson)) : e \in excs}

FileA == CatalogFile(TRUE, 1, CatalogRowsA, TRUE)
FileMissing == CatalogFile(FALSE, 0, <<>>, FALSE)

MaxSearchRequests == 1

SearchInputs ==
    [requests |-> {1},
     max_requests |-> MaxSearchRequests,
     queries |-> {"vitamin C serum for brightening"},
     sessions |-> {"s1"},
     batches |-> {BatchFull, BatchEmpty},
     outcomes |-> Replies(ReconcileJson) \cup {UndecodableReply}
                    \cup Raises({"BlockedPromptException", ValueErrorNoText}),
     files |-> {FileA, FileMissing, CatalogFile(TRUE, 1, CatalogRowsA, FALSE)},
     keys |-> BOOLEAN,
     stores |-> {<< >>},
     builds |-> Builds]

(***************************************************************************)
(* Specifications                                                          *)
(***************************************************************************)
InitWith(In) ==
    /\ _user_conversations \in In.stores
    /\ _products_cache = <<>>
    /\ _products_cache_mtime = <<>>
    /\ catalog_file \in In.files
    /\ GOOGLE_API_KEY \in In.keys
    /\ pc = [r \in Requests |-> "idle"]
    /\ locals = [r \in Requests |-> NoLocals]
    /\ http = [r \in Requests |-> NoHttp]
    /\ uuids = 0
    /\ started = 0
    /\ collection \in {Stored(batch) : batch \in In.batches}
    /\ ingest = NoIngest
    /\ build \in In.builds

NextWith(In) ==
    \E r \in In.requests :
        \/ ReceiveRequest(r, In)
        \/ VectorStoreUnavailable(r, In)
        \/ RetrievalFails(r)
        \/ BeginSearch(r, In)
        \/ SearchWithoutKey(r, In)
        \/ AttemptSucceeds(r, In)
        \/ AttemptFails(r, In)
        \/ RetryAfterSleep(r)
        \/ AttemptExhausts(r, In)
        \/ AttemptRejected(r, In)
        \/ HandlerCrashes(r, In)

\* one request, every shape of the model's results and used ids
Spec == InitWith(SearchInputs) /\ [][NextWith(SearchInputs)]_vars

\* one request, every way an attempt at the model can end
MaxRetryRequests == 1

SimpleJson ==
    LlmJson(None, <<LlmResult("P001", <<"r1">>, <<>>)>>, <<"c1">>, <<>>, None, "Here is one.")

RetryInputs ==
    [requests |-> {1},
     max_requests |-> MaxRetryRequests,
     queries |-> {"vitamin C serum for brightening"},
     sessions |-> {None, "s1"},
     batches |-> {BatchFull},
     outcomes |-> Replies({SimpleJson}) \cup {NoMarkersReply, UndecodableReply, InvalidReply}
                    \cup Raises(SendExceptions),
     files |-> {FileA},
     keys |-> BOOLEAN,
     stores |-> {<< >>},
     builds |-> Builds]

SpecRetry == InitWith(RetryInputs) /\ [][NextWith(RetryInputs)]_vars

\* concurrent requests over shared sessions
MaxSessionRequests == 3

\* the history that n earlier requests of one session leave behind
Prefill(n) ==
    [i \in 1..(2 * n) |->
        IF i % 2 = 1 THEN Turn("user", <<"earlier query " \o ToString((i + 1) \div 2)>>)
        ELSE Turn("model", <<"earlier answer " \o ToString(i \div 2)>>)]

SessionInputs ==
    [requests |-> {1, 2},
     max_requests |-> MaxSessionRequests,
     queries |-> {"q"},
     sessions |-> {None, "s1"},
     batches |-> {BatchEmpty},
     outcomes |-> Replies({LlmJson(None, <<>>, <<>>, <<>>, "Sure.", None),
                           LlmJson("s2", <<>>, <<>>, <<"Which skin type?">>, None,
                                   "I have a question.")})
                    \cup {UndecodableReply}
                    \cup Raises({"BlockedPromptException", ValueErrorNoText}),
     files |-> {FileA},
     keys |-> BOOLEAN,
     stores |-> {<< >>, "s1" :> Prefill(MAX_HISTORY_TURNS - 1)},
     builds |-> Builds]

SpecSession == InitWith(SessionInputs) /\ [][NextWith(SessionInputs)]_vars

\* the products router over a file that changes
MaxMtime == 2
MaxCatalogCalls == 3

\* a file whose only row does not validate: it loads to the empty list

CatalogFiles ==
    {CatalogFile(TRUE, mt, rows, TRUE) : mt \in 1..MaxMtime, rows \in {CatalogRowsA, CatalogRowsB}}
      \cup {CatalogFile(TRUE, MaxMtime, <<BadRow, CsvRow("P005", None, <<10>>)>>, TRUE),
            CatalogFile(TRUE, MaxMtime, CatalogRowsA, FALSE),
            FileMissing}

CatalogInputs ==
    [requests |-> {1, 2},
     max_requests |-> MaxCatalogCalls,
     batches |-> {BatchEmpty},
     files |-> CatalogFiles,
     keys |-> {TRUE},
     stores |-> {<< >>},
     builds |-> Builds]

NextCatalog ==
    \/ \E r \in CatalogInputs.requests :
          \/ ListProducts(r, CatalogInputs)
          \/ clear_product_cache(r, CatalogInputs)
    \/ CatalogFileChanges(CatalogInputs)
SpecCatalog == InitWith(CatalogInputs) /\ [][NextCatalog]_vars

\* one request at a time, stage by stage, over a catalogue file that
\* changes; the model recommends P002 before P001
MaxStageRequests == 2

StageInputs ==
    [requests |-> {1},
     max_requests |-> MaxStageRequests,
     queries |-> {"vitamin C serum for brightening"},
     sessions |-> {"s1"},
     batches |-> {BatchFull},
     outcomes |-> Replies({LlmJson(None,
                                   <<LlmResult("P002", <<>>, <<>>),
                                     LlmResult("P001", <<"r1">>, <<>>)>>,
                                   <<"r1", "c1">>, <<>>, None, "Here are two.")})
                    \cup {UndecodableReply}
                    \cup Raises({"BlockedPromptException", ValueErrorNoText}),
     files |-> {FileA, CatalogFile(TRUE, MaxMtime, CatalogRowsB, TRUE)},
     keys |-> BOOLEAN,
     stores |-> {<< >>},
     builds |-> Builds]

NextStages ==
    \/ \E r \in StageInputs.requests :
          \/ ReceiveRequest(r, StageInputs)
          \/ VectorStoreUnavailable(r, StageInputs)
          \/ RetrievalFails(r)
          \/ Retrieve(r, StageInputs)
          \/ ConsultCatalog(r)
          \/ ComposeHistory(r)
          \/ AttemptFails(r, StageInputs)
          \/ RetryAfterSleep(r)
          \/ HandlerCrashes(r, StageInputs)
          \/ Generate(r, StageInputs)
          \/ MergeWithCatalog(r)
          \/ RerankByMargin(r)
          \/ ReconcileEvidence(r)
          \/ UpdateSession(r)
    \/ CatalogFileChanges(StageInputs)
SpecStages == InitWith(StageInputs) /\ [][NextStages]_vars

\* the chunker on one document of every length up to MaxContentLen
MaxContentLen == 980

\* a content of length L whose characters are all different: the character
\* at position i is the numeral of i
Content(L) == [i \in 1..L |-> ToString(i)]

ChunkerDocument(L) ==
    ParsedDocument("brand_info_main_content", "brand_info", Content(L),
                   Metadata(None, None, None, None, <<>>))

\* the same document with metadata that already holds the two keys the
\* chunker writes
ChunkerDocumentWithKeys(L) ==
    ParsedDocument("brand_info_main_content", "brand_info", Content(L),
                   Metadata("another_doc", "review", None, None, <<>>))

InitChunker ==
    /\ _user_conversations = << >>
    /\ _products_cache = <<>>
    /\ _products_cache_mtime = <<>>
    /\ catalog_file = FileA
    /\ GOOGLE_API_KEY = TRUE
    /\ pc = [r \in Requests |-> "idle"]
    /\ locals = [r \in Requests |-> NoLocals]
    /\ http = [r \in Requests |-> NoHttp]
    /\ uuids = 0
    /\ build \in Builds
    /\ started = 0
    /\ collection = {}
    /\ \E L \in 0..MaxContentLen :
          \E doc \in {ChunkerDocument(L), ChunkerDocumentWithKeys(L)} :
              ingest = [pc |-> "chunker", parsed_docs |-> <<doc>>,
                        doc_chunks |-> <<>>, chunked |-> FALSE]
SpecChunker == InitChunker /\ [][ChunkDocuments]_vars

\* repeated ingestion runs over fixed data files
MaxIngestRuns == 2

ProductDocument ==
    ParsedDocument("product_P001", "product_info", <<"Product Name: Bright C Serum">>,
                   Metadata(None, None, "P001", "Bright C Serum", <<>>))
ReviewDocument(n) ==
    ParsedDocument("review_txt_" \o ToString(n), "review",
                   <<"Review for Bright C Serum by A (Rating: 4 stars): works">>,
                   Metadata(None, None, None, "Bright C Serum", Repeat(StarPattern, 4)))
\* a brand text longer than one window
BrandDocument ==
    ParsedDocument("brand_info_main_content", "brand_info", Content(TEXT_CHUNK_SIZE + 8),
                   Metadata(None, None, None, None, <<>>))

MissingFile == SourceFile(FALSE, <<>>)
\* a file that is read and holds no document: a catalogue of a header line
\* without a valid row, a text file of blank lines
EmptyFile == SourceFile(TRUE, <<>>)
\* a file whose reading raises: for pandas.read_csv a file of 0 bytes or a
\* line with more fields than the header
UnreadableFile == [exists |-> TRUE, docs |-> <<>>, readable |-> FALSE]

IngestSources ==
    {[catalog |-> MissingFile, brand_info |-> MissingFile, reviews |-> MissingFile,
      tickets |-> MissingFile],
     [catalog |-> EmptyFile, brand_info |-> EmptyFile, reviews |-> EmptyFile,
      tickets |-> MissingFile],
     [catalog |-> SourceFile(TRUE, <<ProductDocument>>), brand_info |-> MissingFile,
      reviews |-> SourceFile(TRUE, <<ReviewDocument(0), ReviewDocument(1)>>),
      tickets |-> EmptyFile],
     [catalog |-> MissingFile, brand_info |-> SourceFile(TRUE, <<BrandDocument>>),
      reviews |-> UnreadableFile, tickets |-> MissingFile],
     [catalog |-> UnreadableFile, brand_info |-> EmptyFile, reviews |-> EmptyFile,
      tickets |-> MissingFile],
     [catalog |-> UnreadableFile, brand_info |-> MissingFile,
      reviews |-> SourceFile(TRUE, <<ReviewDocument(0)>>), tickets |-> MissingFile],
     [catalog |-> SourceFile(TRUE, <<ProductDocument>>),
      brand_info |-> SourceFile(TRUE, <<BrandDocument>>),
      reviews |-> SourceFile(TRUE, <<ReviewDocument(0)>>), tickets |-> MissingFile]}

\* what an ingestion of other data left in the collection
OldEntries ==
    {[id |-> "old-1", document |-> <<"Product Name: Hydra Gel">>,
      metadata |-> Metadata("product_P002", "product_info", "P002", "Hydra Gel", <<>>)],
     [id |-> "old-2", document |-> <<"Review for Hydra Gel by B (Rating: 5 stars): great">>,
      metadata |-> Metadata("review_txt_0", "review", None, "Hydra Gel",
                            Repeat(StarPattern, 5))]}

IngestInputs ==
    [max_runs |-> MaxIngestRuns,
     sources |-> IngestSources,
     collections |-> {{}, OldEntries}]

InitIngest ==
    /\ _user_conversations = << >>
    /\ _products_cache = <<>>
    /\ _products_cache_mtime = <<>>
    /\ catalog_file = FileA
    /\ GOOGLE_API_KEY = TRUE
    /\ pc = [r \in Requests |-> "idle"]
    /\ locals = [r \in Requests |-> NoLocals]
    /\ http = [r \in Requests |-> NoHttp]
    /\ uuids = 0
    /\ build \in Builds
    /\ started = 0
    /\ collection \in IngestInputs.collections
    /\ \E sources \in IngestInputs.sources :
          ingest = [pc |-> "idle", sources |-> sources, parsed_docs |-> <<>>,
                    doc_chunks |-> <<>>, before |-> {}, runs |-> <<>>]
NextIngest ==
    \/ IngestLoad(IngestInputs)
    \/ IngestClearFails
    \/ IngestClear
    \/ IngestEncodeFails
    \/ IngestAddFails
    \/ IngestAdd
SpecIngest == InitIngest /\ [][NextIngest]_vars

\* one request over the full batch: what the model recommends, what it
\* cites as a product's supporting reviews and what it lists as used
MaxEvidenceRequests == 1

EvidenceResults ==
    {<<>>,
     <<LlmResult("P001", <<>>, <<>>)>>,
     <<LlmResult("P002", <<>>, <<>>)>>,
     <<LlmResult("P001", <<"r1">>, <<>>)>>,
     <<LlmResult("P001", <<"r2">>, <<>>)>>,
     <<LlmResult("P001", <<>>, <<>>), LlmResult("P002", <<>>, <<>>)>>,
     <<LlmResult("P002", <<"r1">>, <<>>), LlmResult("P001", <<>>, <<>>)>>,
     <<LlmResult("P001", <<>>, <<>>), LlmResult("P001", <<>>, <<>>)>>,
     <<LlmResult("P001", <<"r1">>, <<>>), LlmResult("P001", <<>>, <<>>)>>,
     <<LlmResult("PX", <<>>, <<>>)>>,
     <<LlmResult("P003", <<>>, <<>>), LlmResult("P001", <<>>, <<>>)>>,
     <<LlmResult("P002", <<>>, <<>>), LlmResult("P003", <<>>, <<>>),
       LlmResult("P001", <<>>, <<>>)>>,
     <<LlmResult("P002", <<>>, <<>>), LlmResult("P001", <<>>, <<>>),
       LlmResult("P003", <<>>, <<>>)>>,
     <<LlmResult("P003", <<"r1">>, <<>>), LlmResult("P002", <<>>, <<>>),
       LlmResult("P003", <<>>, <<>>), LlmResult("P001", <<>>, <<>>)>>}

EvidenceInputs ==
    [requests |-> {1},
     max_requests |-> MaxEvidenceRequests,
     queries |-> {"vitamin C serum for brightening"},
     sessions |-> {"s1"},
     batches |-> {BatchFull},
     outcomes |-> Replies({LlmJson(None, res, used, <<>>, None, "Here are some options.") :
                              res \in EvidenceResults,
                              used \in {<<>>, <<"r1">>, <<"r2">>, <<"r3">>, <<"r4">>,
                                         <<"c1">>, <<"m1">>, <<"zz">>,
                                         <<"r1", "r1">>, <<"r1", "r2">>, <<"r3", "r1">>,
                                         <<"r1", "r2", "r3", "r4", "c1">>}})
                    \cup {UndecodableReply}
                    \cup Raises({"BlockedPromptException", ValueErrorNoText}),
     files |-> {FileA, CatalogFile(TRUE, 1, CatalogRowsNoMarginColumn, TRUE)},
     keys |-> BOOLEAN,
     stores |-> {<< >>},
     builds |-> Builds]

SpecEvidence == InitWith(EvidenceInputs) /\ [][NextWith(EvidenceInputs)]_vars

\* the server process: the ingestion of the startup, then requests
MaxServerRequests == 1

\* batches: every order in which a query can rank what the startup can leave
\* in the collection, that is what it found, nothing, or the chunks of its
\* sources, whose ids are the first the process draws
ServerInputs ==
    LET left == {{}, OldEntries}
                  \cup {Entries(chunk_parsed_documents(all_parsed_docs(sources), 0)) :
                           sources \in {x \in IngestSources : x.catalog.readable}}
        Rankings(entries) ==
            LET n == Cardinality(entries)
            IN  {[i \in 1..n |-> FormattedResult(f[i])] :
                    f \in {g \in [1..n -> entries] :
                              \A i, j \in 1..n : g[i] = g[j] => i = j}}
    IN
    [requests |-> {1},
     max_requests |-> MaxServerRequests,
     queries |-> {"vitamin C serum for brightening"},
     sessions |-> {"s1"},
     batches |-> UNION {Rankings(entries) : entries \in left},
     outcomes |-> Replies({SimpleJson}) \cup {UndecodableReply}
                    \cup Raises({"BlockedPromptException", ValueErrorNoText}),
     files |-> {FileA},
     keys |-> BOOLEAN,
     builds |-> Builds,
     stores |-> {<< >>},
     max_runs |-> 1,
     sources |-> IngestSources,
     collections |-> {{}, OldEntries}]

InitServer ==
    /\ _user_conversations \in ServerInputs.stores
    /\ _products_cache = <<>>
    /\ _products_cache_mtime = <<>>
    /\ catalog_file \in ServerInputs.files
    /\ GOOGLE_API_KEY \in ServerInputs.keys
    /\ pc = [r \in Requests |-> "idle"]
    /\ locals = [r \in Requests |-> NoLocals]
    /\ http = [r \in Requests |-> NoHttp]
    /\ uuids = 0
    /\ build \in ServerInputs.builds
    /\ started = 0
    /\ collection \in ServerInputs.collections
    /\ \E sources \in ServerInputs.sources :
          ingest = [pc |-> "idle", sources |-> sources, parsed_docs |-> <<>>,
                    doc_chunks |-> <<>>, before |-> {}, runs |-> <<>>]

NextServer ==
    \/ IngestLoad(ServerInputs)
    \/ IngestClearFails
    \/ IngestClear
    \/ IngestEncodeFails
    \/ IngestAddFails
    \/ IngestAdd
    \/ \E r \in ServerInputs.requests :
          \/ ServeRequest(r, ServerInputs)
          \/ RetrievalFails(r)
          \/ BeginSearch(r, ServerInputs)
          \/ SearchWithoutKey(r, ServerInputs)
          \/ AttemptSucceeds(r, ServerInputs)
          \/ AttemptFails(r, ServerInputs)
          \/ RetryAfterSleep(r)
          \/ AttemptExhausts(r, ServerInputs)
          \/ AttemptRejected(r, ServerInputs)
          \/ HandlerCrashes(r, ServerInputs)
SpecServer == InitServer /\ [][NextServer]_vars

(***************************************************************************)
(* Properties                                                              *)
(***************************************************************************)
Last(s) == s[Len(s)]

\* the handler of request r has returned its response
Served(r) == pc[r] = "done" /\ http[r].status = 200
Body(r) == http[r].body

\* the results the model proposed in the reply that request r worked with
Proposed(r) == locals[r].llm_response.results

\* C1: every product of a returned result is, field for field, the record
\* the request's catalogue holds under that product id; nothing the model
\* asserted about the product except the id survives.
C1_CatalogMerge ==
    \A r \in Requests :
        Served(r) =>
            \A i \in 1..Len(Body(r).results) :
                LET p == Body(r).results[i].product
                IN  /\ p.product_id \in DOMAIN locals[r].catalog
                    /\ p = locals[r].catalog[p.product_id]

C1_Witness ==
    \E r \in Requests :
        /\ Served(r)
        /\ Len(Body(r).results) > 0
        /\ Len(Proposed(r)) > 0
        /\ Body(r).results[1].product.product_id = "P001"
        /\ \E i \in 1..Len(Proposed(r)) :
              /\ Proposed(r)[i].product.product_id = "P001"
              /\ Proposed(r)[i].product.product_name = "LLM Invented Name"
        /\ Body(r).results[1].product.product_name = "Bright C Serum"

\* C2: no returned result carries a product id that is not a key of the
\* request's catalogue; such a proposal is dropped, so the returned results
\* are exactly as many as the proposals whose id resolves.
C2_UnresolvableDropped ==
    \A r \in Requests :
        Served(r) =>
            /\ \A i \in 1..Len(Body(r).results) :
                  Body(r).results[i].product.product_id \in DOMAIN locals[r].catalog
            /\ Len(Body(r).results) =
                  Cardinality({i \in 1..Len(Proposed(r)) :
                                  Proposed(r)[i].product.product_id \in DOMAIN locals[r].catalog})

C2_Witness ==
    \E r \in Requests :
        /\ Served(r)
        /\ Len(Proposed(r)) = 2
        /\ Proposed(r)[1].product.product_id = "PX"
        /\ Proposed(r)[2].product.product_id = "P002"
        /\ Len(Body(r).results) = 1
        /\ Body(r).results[1].product.product_id = "P002"

\* the response of request r reached the client: the handler returned it
\* and its encoding did not raise
Delivered(r) == Served(r) /\ http[r].delivery.sent

\* the result has a margin: a number, which is neither None nor the NaN that
\* reaches the client as null
StatesMargin(p_res) == HasMargin(p_res) /\ MarginOf(p_res) # NaN

\* C3: in the results list the client receives, the results whose product
\* has a non-null margin are in non-increasing order of margin, and none
\* with a null margin stands before one with a non-null margin.
C3_MarginOrder ==
    \A r \in Requests :
        Delivered(r) =>
            LET margin == [i \in 1..Len(http[r].delivery.products) |->
                              http[r].delivery.products[i].margin_percentage]
            IN  \A i, j \in 1..Len(margin) :
                    i < j =>
                        /\ (margin[i] # <<>> /\ margin[j] # <<>>) => margin[i][1] >= margin[j][1]
                        /\ ~(margin[i] = <<>> /\ margin[j] # <<>>)

\* C4: no chunk id is at once a supporting review of some returned product
\* and an entry of the returned top-level rag_contexts.
C4_EvidenceExclusive ==
    \A r \in Requests :
        Served(r) =>
            \A i \in 1..Len(Body(r).results) :
                ChunkIds(Body(r).results[i].supporting_reviews)
                    \cap ChunkIds(Body(r).rag_contexts) = {}

\* C5: no session's stored history ever holds more than 20 entries.
C5_SessionBound ==
    \A sid \in DOMAIN _user_conversations : Len(_user_conversations[sid]) <= 20

\* a request of session s1 was answered after the history was full: the
\* oldest pair is gone and 20 entries remain
C5_Witness ==
    /\ "s1" \in DOMAIN _user_conversations
    /\ Len(_user_conversations["s1"]) = 20
    /\ _user_conversations["s1"][1] = Prefill(2)[3]
    /\ \E r \in Requests : Served(r) /\ Body(r).session_id = "s1"

\* the failures the claim lists as retried
ListedRetriable ==
    {"JSONDecodeError", "ValidationError", ValueErrorMarkers, "ResourceExhausted",
     "InternalServerError", "ServiceUnavailable", "DeadlineExceeded"}

\* C6: the model is invoked at most 3 times per request; an invocation happens
\* only while the request waits on the model, fewer than 3 were made and none
\* succeeded; after a listed retriable failure the request goes on to another
\* attempt, by way of the sleep, exactly if fewer than 3 were made; after a
\* success it is finished.
C6_AtMostThreeAttempts ==
    [][\A r \in Requests :
          /\ locals'[r].calls > locals[r].calls =>
                /\ pc[r] = "llm"
                /\ locals[r].calls < 3
                /\ locals'[r].calls = locals[r].calls + 1
                /\ \A k \in 1..locals[r].calls : locals[r].attempt_log[k] # "none"
                /\ Last(locals'[r].attempt_log) \in ListedRetriable =>
                      (pc'[r] = "sleep" <=> locals'[r].calls < 3)
                /\ Last(locals'[r].attempt_log) = "none" => pc'[r] = "done"
          /\ (pc[r] = "sleep" /\ pc'[r] # "sleep") =>
                /\ pc'[r] = "llm"
                /\ locals[r].calls < 3]_vars

C6_Witness ==
    \E r \in Requests :
        /\ pc[r] = "done"
        /\ locals[r].calls = 3
        /\ \A k \in 1..3 : locals[r].attempt_log[k] \in ListedRetriable

\* C7: once an attempt ends with a content-policy block or a stopped
\* generation the request is finished, whatever the attempt number, and both
\* the generation stage's response and the returned one have empty results,
\* rag_contexts and follow_up_questions.
C7_RejectionIsTerminal ==
    \A r \in Requests :
        (locals[r].calls > 0
            /\ Last(locals[r].attempt_log) \in {"BlockedPromptException", "StopCandidateException"})
        => /\ Served(r)
           /\ locals[r].llm_response.results = <<>>
           /\ locals[r].llm_response.rag_contexts = <<>>
           /\ locals[r].llm_response.follow_up_questions = <<>>
           /\ Body(r).results = <<>>
           /\ Body(r).rag_contexts = <<>>
           /\ Body(r).follow_up_questions = <<>>
           /\ Truthy(Body(r).answer)

C7_Witness ==
    \E r \in Requests :
        /\ Served(r)
        /\ locals[r].calls = 2
        /\ locals[r].attempt_log[1] = "ResourceExhausted"
        /\ locals[r].attempt_log[2] = "StopCandidateException"

\* the claim's categories of a retriable failure
FailureCategory(e) ==
    IF e = "JSONDecodeError" THEN "parse error"
    ELSE IF e = "ValidationError" THEN "validation error"
    ELSE IF e = ValueErrorMarkers THEN "format error"
    ELSE IF e = "ResourceExhausted" THEN "rate limit"
    ELSE IF e \in {"InternalServerError", "ServiceUnavailable", "DeadlineExceeded"}
         THEN "service error"
    ELSE IF e = "GoogleAPIError" THEN "api error"
    ELSE "generic"

CannedAnswer(category) ==
    IF category = "parse error"
    THEN "Sorry, I had trouble processing that. Could you try rephrasing?"
    ELSE IF category = "validation error"
    THEN "Sorry, I encountered an issue with the response structure. Please try again."
    ELSE IF category = "format error"
    THEN "Sorry, I couldn't generate a structured response. Please try again."
    ELSE IF category = "rate limit"
    THEN "I'm a bit overwhelmed at the moment. Please try again in a few moments."
    ELSE IF category = "service error"
    THEN "There seems to be a temporary issue with the AI service. Please try again shortly."
    ELSE IF category = "api error"
    THEN "An issue occurred while communicating with the AI service. Please try again."
    ELSE "Sorry, I'm having trouble connecting to my brain right now. Please try again later."

CannedJustification(category) ==
    IF category = "parse error" THEN "LLM response parsing error after multiple attempts."
    ELSE IF category = "validation error"
    THEN "LLM response validation error after multiple attempts."
    ELSE IF category = "format error" THEN "LLM output format error after multiple attempts."
    ELSE IF category = "rate limit" THEN "Rate limit reached. Please try again later."
    ELSE IF category = "service error" THEN "AI service unavailable or server error."
    ELSE IF category = "api error" THEN "AI service communication error."
    ELSE "LLM API call failed after multiple attempts."

\* C8: the degraded response returned after three retriable failures has
\* empty results, and its answer and justification are those of the category
\* of the third failure, whatever the first two were.
C8_DegradedByLastFailure ==
    \A r \in Requests :
        (Served(r) /\ locals[r].calls = 3
            /\ Last(locals[r].attempt_log)
                  \notin {"none", "BlockedPromptException", "StopCandidateException"})
        => /\ Body(r).results = <<>>
           /\ Body(r).answer = CannedAnswer(FailureCategory(Last(locals[r].attempt_log)))
           /\ Body(r).contextual_justification
                 = CannedJustification(FailureCategory(Last(locals[r].attempt_log)))

\* rate limit, then a reply without JSON markers, then a reply text that is
\* not an answer at all: the generic message, not the format-error one
C8_Witness ==
    \E r \in Requests :
        /\ Served(r)
        /\ locals[r].attempt_log = <<"ResourceExhausted", ValueErrorMarkers, ValueErrorNoText>>
        /\ Body(r).results = <<>>
        /\ Body(r).answer = CannedAnswer("generic")

\* three JSON-decode failures in a row: the parse-error message
C8_ScenarioWitness ==
    \E r \in Requests :
        /\ Served(r)
        /\ locals[r].attempt_log = <<"JSONDecodeError", "JSONDecodeError", "JSONDecodeError">>
        /\ Body(r).answer = "Sorry, I had trouble processing that. Could you try rephrasing?"

\* C9: once the model has been invoked, the request ends with a
\* SearchResponse: the generation stage never raises to the handler.
C9_GenerationNeverRaises ==
    \A r \in Requests :
        (pc[r] = "done" /\ locals[r].calls > 0) => http[r].status = 200

\* C10: a request that ends without a validated reply of the model (store
\* unavailable, retrieval error, generation failure) still ends with a
\* SearchResponse that has a non-empty answer and contextual_justification.
C10_FailuresAreSearchResponses ==
    \A r \in Requests :
        (pc[r] = "done" /\ ~(locals[r].calls > 0 /\ Last(locals[r].attempt_log) = "none")) =>
            /\ http[r].is_search_response
            /\ Truthy(Body(r).answer)
            /\ Truthy(Body(r).contextual_justification)

\* the chunk ids of the retrieval batch that request r was given
BatchIds(r) == {locals[r].rag_results[i].id : i \in 1..Len(locals[r].rag_results)}

\* C11: every chunk of the returned rag_contexts and of every returned
\* product's supporting_reviews has a chunk id of the request's own retrieval
\* batch, also when that batch is empty.
C11_EvidenceFromBatch ==
    \A r \in Requests :
        Served(r) =>
            /\ ChunkIds(Body(r).rag_contexts) \subseteq BatchIds(r)
            /\ \A i \in 1..Len(Body(r).results) :
                  ChunkIds(Body(r).results[i].supporting_reviews) \subseteq BatchIds(r)

\* C12: every chunk of a returned product's supporting_reviews has
\* source_type 'review'.
C12_SupportingAreReviews ==
    \A r \in Requests :
        Served(r) =>
            \A i \in 1..Len(Body(r).results) :
                \A k \in 1..Len(Body(r).results[i].supporting_reviews) :
                    Body(r).results[i].supporting_reviews[k].source_type = "review"

\* request r, so far unanswered, is answered with a SearchResponse in this step
Completes(r) ==
    /\ pc[r] \in {"handler", "llm"}
    /\ pc'[r] = "done"
    /\ http'[r].status = 200

\* the two turns request r adds to a history when it is answered with resp
TurnPair(r, resp) ==
    << Turn("user", <<locals[r].query>>), Turn("model", response_summary_for_history(resp)) >>

\* the history stored under sid, empty when there is none
StoredHistory(store, sid) == IF sid \in DOMAIN store THEN store[sid] ELSE <<>>

\* do the two turns stand next to each other in history h
HoldsPair(h, pair) == \E i \in 1..(Len(h) - 1) : h[i] = pair[1] /\ h[i + 1] = pair[2]

\* C13: the step that answers a request carrying session id S appends the
\* request's two turns to the history stored under S and leaves the history
\* of every other session id as it was, whatever session_id the model's JSON
\* holds.
C13_SessionIsolation ==
    [][\A r \in Requests :
          (Completes(r) /\ Truthy(locals[r].session_id)) =>
              LET S == locals[r].session_id
              IN  /\ S \in DOMAIN _user_conversations'
                  /\ _user_conversations'[S] =
                        Truncated(StoredHistory(_user_conversations, S)
                                      \o TurnPair(r, http'[r].body))
                  /\ \A sid \in DOMAIN _user_conversations' \ {S} :
                        /\ sid \in DOMAIN _user_conversations
                        /\ _user_conversations'[sid] = _user_conversations[sid]]_vars

\* C14: every returned SearchResponse carries a non-null session id and the
\* request's turn pair is stored under that id, degraded responses of
\* requests without a session id included.
C14_ResponseHasSession ==
    \A r \in Requests :
        Served(r) =>
            /\ Truthy(Body(r).session_id)
            /\ Body(r).session_id \in DOMAIN _user_conversations
            /\ HoldsPair(_user_conversations[Body(r).session_id], TurnPair(r, Body(r)))

\* C15: while a request of session S stands between its read of the history
\* and its own append, the history stored under S is the one it read: no
\* other request's turns are appended in between.
C15_ReadAppendAtomic ==
    \A r \in Requests :
        (pc[r] \in {"llm", "sleep"} /\ Truthy(locals[r].session_id)) =>
            StoredHistory(_user_conversations, locals[r].session_id) = locals[r].history

\* C16: two concurrent requests of session s1, the history empty before them,
\* both answered: the history of s1 holds the turn pair of each, four turns
\* in all.
C16_NoLostUpdate ==
    (/\ started = 2
     /\ \A r \in Requests : Served(r) /\ locals[r].session_id = "s1"
     /\ \A i \in 1..Len(StoredHistory(_user_conversations, "s1")) :
           \A k \in 1..(2 * MAX_HISTORY_TURNS) :
               k <= 2 * (MAX_HISTORY_TURNS - 1) =>
                   _user_conversations["s1"][i] # Prefill(MAX_HISTORY_TURNS - 1)[k])
    => /\ Len(StoredHistory(_user_conversations, "s1")) = 4
       /\ \A r \in Requests :
             HoldsPair(StoredHistory(_user_conversations, "s1"), TurnPair(r, Body(r)))

\* request r was a call of get_products, and what the call found and did
Called(r) == pc[r] = "done" /\ locals[r].products_call.op = "get_products"
Call(r) == locals[r].products_call

\* the products of the rows of a file that validate, in the file's order
ValidRows(file) ==
    LET valid == SelectSeq(file.rows, Validates)
    IN  [i \in 1..Len(valid) |-> ProductOfRow(valid[i])]

\* the reload condition as the claim words it
StaleFor(c) ==
    \/ c.cache_before = <<>>
    \/ c.mtime_before = <<>>
    \/ c.file.mtime > c.mtime_before[1]

\* C17: a call of get_products on an existing file reads the file exactly
\* when the cache is empty, or no timestamp is cached, or the file's
\* modification time is strictly newer than the cached one; a reload that
\* succeeds returns the file's products and caches them under the file's
\* time; in every other case the cached list is returned and the cache and
\* its timestamp stay as they were.
C17_ReloadExactlyWhenStale ==
    \A r \in Requests :
        (Called(r) /\ Call(r).file.exists) =>
            LET c == Call(r)
            IN  /\ c.read <=> StaleFor(c)
                /\ (StaleFor(c) /\ ~c.raised) =>
                      /\ http[r].body = ValidRows(c.file)
                      /\ c.cache_after = ValidRows(c.file)
                      /\ c.mtime_after = <<c.file.mtime>>
                /\ ~StaleFor(c) =>
                      /\ ~c.raised
                      /\ http[r].body = c.cache_before
                      /\ c.cache_after = c.cache_before
                      /\ c.mtime_after = c.mtime_before

\* the file's content changed and its modification time did not: the call
\* answers from the cache without reading
C17_Witness ==
    \E r \in Requests :
        /\ Called(r)
        /\ Call(r).file.exists
        /\ Call(r).cache_before # <<>>
        /\ Call(r).mtime_before = <<Call(r).file.mtime>>
        /\ ValidRows(Call(r).file) # Call(r).cache_before
        /\ ~Call(r).read
        /\ http[r].body = Call(r).cache_before

\* this step serves a request of the products router in slot r
ClearStep(r) ==
    /\ started' = started + 1
    /\ locals'[r].products_call.op = "clear_product_cache"
    /\ locals'[r].products_call.seq = started'
GetStep(r) ==
    /\ started' = started + 1
    /\ locals'[r].products_call.op = "get_products"
    /\ locals'[r].products_call.seq = started'

\* C18: clear_product_cache leaves the cache without products and without
\* timestamp whatever it held, and the call of get_products that follows it
\* reads the file (when there is one), also when the file's modification
\* time is the one that was cached.
C18_ClearForcesReload ==
    [][\A r \in Requests :
          /\ ClearStep(r) =>
                /\ _products_cache' = <<>>
                /\ _products_cache_mtime' = <<>>
          /\ (GetStep(r) /\ LastCall.op = "clear_product_cache" /\ catalog_file.exists) =>
                /\ locals'[r].products_call.read
                /\ catalog_file.parses =>
                      /\ http'[r].status = 200
                      /\ http'[r].body = ValidRows(catalog_file)]_vars

\* a loaded cache was cleared and the next call read the file again although
\* the file still had the modification time the cache had held
C18_Witness ==
    \E r \in Requests :
        /\ Called(r)
        /\ Call(r).previous.op = "clear_product_cache"
        /\ Call(r).file.exists
        /\ Call(r).previous.mtime_before = <<Call(r).file.mtime>>
        /\ Call(r).read
        /\ Len(http[r].body) = 4

\* C19: every list get_products returns is the complete list of the valid
\* rows of one version of the catalogue file.
C19_ReturnedListsAreComplete ==
    \A r \in Requests :
        (Called(r) /\ ~Call(r).raised) =>
            /\ http[r].status = 200
            /\ \E f \in CatalogFiles :
                  f.exists /\ f.parses /\ http[r].body = ValidRows(f)

\* a reload replaced a cache that held an older version of the file
C19_Witness ==
    \E r \in Requests :
        /\ Called(r)
        /\ Call(r).read
        /\ Call(r).cache_before # <<>>
        /\ http[r].status = 200
        /\ http[r].body # Call(r).cache_before
        /\ http[r].body = ValidRows(Call(r).file)
        /\ _products_cache = http[r].body

\* C20: a call of get_products while the file is missing raises and returns
\* no list, whatever the cache held.
C20_MissingFileRaises ==
    \A r \in Requests :
        (Called(r) /\ ~Call(r).file.exists) =>
            /\ Call(r).raised
            /\ http[r].status = 500
            /\ "body" \notin DOMAIN http[r]

C20_Witness ==
    \E r \in Requests :
        /\ Called(r)
        /\ ~Call(r).file.exists
        /\ Call(r).cache_before # <<>>
        /\ http[r].status = 500
        /\ Call(r).cache_after = <<>>

\* the catalogue file cannot be loaded: it is missing or it cannot be read
CatalogUnavailable == ~catalog_file.exists \/ ~catalog_file.parses

\* request r is finished and its handler went past the load of the catalogue
PastCatalogLoad(r) == pc[r] = "done" /\ (locals[r].calls > 0 \/ http[r].status = 200)

\* C21: a search request that found the catalogue unloadable is answered
\* with a SearchResponse with empty results, whatever the model proposed, and
\* its turn pair is stored under the response's session id; it does not fail.
C21_CatalogFailureDegrades ==
    \A r \in Requests :
        (PastCatalogLoad(r) /\ CatalogUnavailable) =>
            /\ Served(r)
            /\ locals[r].catalog = << >>
            /\ Body(r).results = <<>>
            /\ Body(r).session_id \in DOMAIN _user_conversations
            /\ HoldsPair(_user_conversations[Body(r).session_id], TurnPair(r, Body(r)))

\* C22: no product of a returned response carries a margin percentage, so
\* that catalogues differing only in margins give responses differing at most
\* in the order of their results.
C22_MarginNotExposed ==
    \A r \in Requests :
        Served(r) =>
            \A i \in 1..Len(Body(r).results) :
                Body(r).results[i].product.margin_percentage = <<>>

\* the document the chunker was applied to, and the chunk texts it made
ChunkedContent == ingest.parsed_docs[1].content
ChunkTexts == [k \in 1..Len(ingest.doc_chunks) |-> ingest.doc_chunks[k].text_chunk]

CeilDiv(a, b) == (a + b - 1) \div b

\* C23: a document of length L gives ceil((L - O) / (W - O)) chunks when
\* L > W and exactly one chunk when L <= W.
C23_ChunkCount ==
    (ingest.pc = "chunker" /\ ingest.chunked) =>
        LET L == Len(ChunkedContent)
        IN  Len(ingest.doc_chunks) =
                IF L > TEXT_CHUNK_SIZE
                THEN CeilDiv(L - TEXT_CHUNK_OVERLAP, TEXT_CHUNK_SIZE - TEXT_CHUNK_OVERLAP)
                ELSE 1

\* the chunks joined, every chunk but the first without its leading O
\* characters
RECURSIVE JoinWithoutOverlap(_)
JoinWithoutOverlap(texts) ==
    IF texts = <<>> THEN <<>>
    ELSE JoinWithoutOverlap(SubSeq(texts, 1, Len(texts) - 1))
             \o (IF Len(texts) = 1 THEN texts[1]
                 ELSE SubSeq(texts[Len(texts)], TEXT_CHUNK_OVERLAP + 1, Len(texts[Len(texts)])))

\* where a character stands in a content whose characters are all different
PositionOf(char, content) == CHOOSE i \in 1..Len(content) : content[i] = char

\* text stands in content from 0-based position start on
IsSubstringAt(text, content, start) ==
    /\ start >= 0
    /\ start + Len(text) <= Len(content)
    /\ text = SubSeq(content, start + 1, start + Len(text))

\* C24: the chunks of a document, joined after the leading O characters of
\* every chunk but the first are removed, are the document's content; every
\* chunk is a contiguous substring of the content, at most W long.  (The
\* characters of the content are all different, so a chunk can only stand
\* where its first character stands.)
C24_ChunksReconstruct ==
    (ingest.pc = "chunker" /\ ingest.chunked) =>
        /\ JoinWithoutOverlap(ChunkTexts) = ChunkedContent
        /\ \A k \in 1..Len(ChunkTexts) :
              /\ Len(ChunkTexts[k]) <= TEXT_CHUNK_SIZE
              /\ ChunkTexts[k] # <<>>
              /\ IsSubstringAt(ChunkTexts[k], ChunkedContent,
                               PositionOf(ChunkTexts[k][1], ChunkedContent) - 1)

\* three chunks, the last one shorter than the overlap
C24_Witness ==
    /\ ingest.pc = "chunker"
    /\ ingest.chunked
    /\ Len(ChunkTexts) = 3
    /\ Len(ChunkTexts[3]) < TEXT_CHUNK_OVERLAP
    /\ Len(ChunkTexts[1]) = TEXT_CHUNK_SIZE
    /\ JoinWithoutOverlap(ChunkTexts) = ChunkedContent

\* the chunk texts a collection holds, each with the number of entries
\* holding it
TextsOf(entries) ==
    [t \in {e.document : e \in entries} |-> Cardinality({e \in entries : e.document = t})]

\* run k and the run after it left the same chunks under new ids
SameChunksNewIds(k) ==
    /\ Cardinality(ingest.runs[k + 1].after) = Cardinality(ingest.runs[k].after)
    /\ TextsOf(ingest.runs[k + 1].after) = TextsOf(ingest.runs[k].after)
    /\ Ids(ingest.runs[k + 1].after) \cap ingest.runs[k].chunk_ids = {}

\* C25: two runs in a row on the same data files, both reaching
\* the end of main, leave the same number of chunks and the same chunk texts,
\* and no entry under an id of the first run.
C25_ReingestIdempotent ==
    ingest.pc # "chunker" =>
        \A k \in 1..(Len(ingest.runs) - 1) :
            (ingest.runs[k].outcome = "completed" /\ ingest.runs[k + 1].outcome = "completed")
                => SameChunksNewIds(k)

\* the ids of one origin: what was there before the first run, or the
\* chunks of one run
IdGroups ==
    {Ids(OldEntries)} \cup {ingest.runs[k].chunk_ids : k \in 1..Len(ingest.runs)}
        \cup {Ids(Entries(ingest.doc_chunks))}

C27_NoDocumentsNoChange ==
    ingest.pc # "chunker" =>
        /\ \A k \in 1..Len(ingest.runs) :
              all_parsed_docs(ingest.runs[k].sources) = <<>> =>
                  /\ ingest.runs[k].outcome # "raised"
                  /\ ingest.runs[k].after = ingest.runs[k].before
        /\ all_parsed_docs(ingest.sources) = <<>> =>
              /\ ingest.pc \in {"idle", "ended"}
              /\ Len(ingest.runs) > 0 => collection = ingest.runs[1].before

\* the results of request r as they stand when the promotion begins: merged
\* with the catalogue and ordered
RankedResults(r) ==
    LET resp == locals[r].llm_response
        merged == IF resp.results # <<>> THEN valid_results(resp.results, locals[r].catalog)
                  ELSE resp.results
    IN  IF merged # <<>> THEN Rerank(merged, build.list_sort) ELSE merged

\* the chunks that the promotion appended to the i-th returned result
PromotedInto(r, i) ==
    LET had == Len(RankedResults(r)[i].supporting_reviews)
        has == Body(r).results[i].supporting_reviews
    IN  {has[k] : k \in (had + 1)..Len(has)}

\* the chunks the model cited as used, as hydrated from the batch
UsedChunks(r) ==
    {locals[r].llm_response.rag_contexts[k] :
        k \in 1..Len(locals[r].llm_response.rag_contexts)}

\* the stars of a rating string, in either of the two encodings that occur
Stars(rating) == Count(rating, StarPattern) + Count(rating, <<BlackStar>>)

\* the chunk's metadata names the product: by id, or without an id by name
\* ignoring case
MatchesProduct(c, product) ==
    \/ c.metadata.product_id # None /\ c.metadata.product_id = product.product_id
    \/ /\ c.metadata.product_id = None
       /\ c.metadata.product_name # None
       /\ Lower(c.metadata.product_name) = Lower(product.product_name)

\* C28: the promotion never adds a chunk to a product's supporting_reviews
\* when the chunk already is a supporting review of that product or of any
\* other product of the response; no promoted chunk is a supporting review
\* of two returned products.
C28_PromotionSkipsClaimed ==
    \A r \in Requests :
        Served(r) =>
            \A i \in 1..Len(Body(r).results) :
                \A c \in PromotedInto(r, i) :
                    /\ c.chunk_id \notin ChunkIds(RankedResults(r)[i].supporting_reviews)
                    /\ \A j \in 1..Len(Body(r).results) :
                          j # i => c.chunk_id \notin
                                       ChunkIds(Body(r).results[j].supporting_reviews)

\* C29: a promoted chunk is a review, matches the product it was promoted
\* into and holds at least 3 stars; a used review chunk with fewer than 3
\* stars is promoted nowhere and is in the returned top-level rag_contexts.
C29_PromotionOnlyOfPositiveReviews ==
    \A r \in Requests :
        Served(r) =>
            /\ \A i \in 1..Len(Body(r).results) :
                  \A c \in PromotedInto(r, i) :
                      /\ c.source_type = "review"
                      /\ MatchesProduct(c, Body(r).results[i].product)
                      /\ Stars(c.metadata.rating) >= 3
            /\ \A c \in UsedChunks(r) :
                  (c.source_type = "review" /\ Stars(c.metadata.rating) < 3) =>
                      /\ \A i \in 1..Len(Body(r).results) : c \notin PromotedInto(r, i)
                      /\ c.chunk_id \in ChunkIds(Body(r).rag_contexts)

\* r1 was promoted into P001 by its lower-case name, r3 into P002 by its id;
\* the 2-star review r2 and the product text c1 stayed at the top level
C29_Witness ==
    /\ Served(1)
    /\ Len(Body(1).results) = 2
    /\ Body(1).results[1].product.product_id = "P001"
    /\ RankedResults(1)[1].supporting_reviews = <<>>
    /\ ChunkIds(Body(1).results[1].supporting_reviews) = {"r1"}
    /\ RankedResults(1)[2].supporting_reviews = <<>>
    /\ ChunkIds(Body(1).results[2].supporting_reviews) = {"r3"}
    /\ {"r2", "c1"} \subseteq ChunkIds(Body(1).rag_contexts)

\* C30: every used review chunk that matches a returned product and holds
\* at least 3 stars is listed in that product's supporting_reviews.
C30_PositiveReviewsAreListed ==
    \A r \in Requests :
        Served(r) =>
            \A i \in 1..Len(Body(r).results) :
                \A c \in UsedChunks(r) :
                    (/\ c.source_type = "review"
                     /\ MatchesProduct(c, Body(r).results[i].product)
                     /\ Stars(c.metadata.rating) >= 3)
                        => c.chunk_id \in ChunkIds(Body(r).results[i].supporting_reviews)

\* the position of a chunk id in the retrieval batch of request r
BatchPos(r, cid) ==
    CHOOSE i \in 1..Len(locals[r].rag_results) : locals[r].rag_results[i].id = cid

\* the chunk ids that some returned product holds as a supporting review
ClaimedIds(r) ==
    UNION {ChunkIds(Body(r).results[i].supporting_reviews) : i \in 1..Len(Body(r).results)}

\* C31: the returned top-level rag_contexts are exactly the used chunks that
\* no returned product holds as a supporting review, in the order of the
\* retrieval batch.
C31_TopLevelInBatchOrder ==
    \A r \in Requests :
        Served(r) =>
            LET ctx == Body(r).rag_contexts
            IN  /\ ChunkIds(ctx) = {c.chunk_id : c \in UsedChunks(r)} \ ClaimedIds(r)
                /\ \A k, l \in 1..Len(ctx) :
                      k < l => BatchPos(r, ctx[k].chunk_id) <= BatchPos(r, ctx[l].chunk_id)

\* the results of request r that passed the validation against the catalogue
ValidatedResults(r) ==
    LET resp == locals[r].llm_response
    IN  IF resp.results # <<>> THEN valid_results(resp.results, locals[r].catalog)
        ELSE resp.results

IsPrefix(s, t) == Len(s) <= Len(t) /\ SubSeq(t, 1, Len(s)) = s

\* the returned result is the validated one, with reviews promoted at most
ReturnedAs(returned, validated) ==
    /\ returned.product = validated.product
    /\ returned.justification = validated.justification
    /\ IsPrefix(validated.supporting_reviews, returned.supporting_reviews)

Bijections(n) ==
    {f \in [1..n -> 1..n] : \A i, j \in 1..n : f[i] = f[j] => i = j}

\* C32: in a response the client receives, the results without a margin are
\* in the order the model gave them and come after every result with a
\* margin; the returned results are a permutation of the validated ones.
C32_NoMarginKeepOrder ==
    \A r \in Requests :
        Delivered(r) =>
            LET out == Body(r).results
                val == ValidatedResults(r)
                out_none == SelectSeq(out, LAMBDA x : ~StatesMargin(x))
                val_none == SelectSeq(val, LAMBDA x : ~StatesMargin(x))
            IN  /\ Len(out_none) = Len(val_none)
                /\ \A k \in 1..Len(out_none) : ReturnedAs(out_none[k], val_none[k])
                /\ \A i, j \in 1..Len(out) :
                      (i < j /\ ~StatesMargin(out[i])) => ~StatesMargin(out[j])
                /\ Len(out) = Len(val)
                /\ \E f \in Bijections(Len(out)) :
                      \A i \in 1..Len(out) : ReturnedAs(out[i], val[f[i]])

\* C33: when the history of the response's session, with the request's two
\* turns appended, has more than 20 entries, the stored history is its last
\* 20 entries in their order; an even number of the oldest entries is
\* dropped and the kept history begins with a user turn.
C33_TruncationKeepsNewest ==
    [][\A r \in Requests :
          Completes(r) =>
              LET sid == http'[r].body.session_id
                  full == StoredHistory(_user_conversations, sid)
                              \o TurnPair(r, http'[r].body)
                  n == Len(full)
                  kept == _user_conversations'[sid]
              IN  n > 20 =>
                      /\ kept = [i \in 1..20 |-> full[n - 20 + i]]
                      /\ (n - 20) % 2 = 0
                      /\ kept[1].role = "user"
                      /\ kept[20] = TurnPair(r, http'[r].body)[2]]_vars

\* two requests were answered after the history of s1 was full: the two
\* oldest pairs are gone, the third earlier query is the first entry
C33_Witness ==
    /\ "s1" \in DOMAIN _user_conversations
    /\ Len(_user_conversations["s1"]) = 20
    /\ _user_conversations["s1"][1] = Prefill(3)[5]
    /\ _user_conversations["s1"][17] = Turn("user", <<"q">>)
    /\ _user_conversations["s1"][19] = Turn("user", <<"q">>)
    /\ started = 3

\* the positions of a request's coroutine, numbered as the stages follow one
\* another when the catalogue is consulted as part of the merge
StatedOrder ==
    [handler |-> 0, retrieved |-> 1, composed |-> 2, llm |-> 2, sleep |-> 2, generated |-> 3,
     catalogued |-> 4, merged |-> 5, ranked |-> 6, reconciled |-> 7, done |-> 8]

\* the same with the catalogue consulted right after the retrieval
SourceOrder ==
    [handler |-> 0, retrieved |-> 1, catalogued |-> 2, composed |-> 3, llm |-> 3, sleep |-> 3,
     generated |-> 4, merged |-> 5, ranked |-> 6, reconciled |-> 7, done |-> 8]

\* a step of request r takes it in, ends it with an error, keeps it in the
\* generation between a call of the model and the sleep before the next, or
\* takes it from one stage to the stage that follows it in the order
RunsInOrder(r, order) ==
    pc'[r] # pc[r] =>
        \/ pc[r] \in {"idle", "done"} /\ pc'[r] = "handler"
        \/ pc'[r] = "done" /\ http'[r].status # 200
        \/ {pc[r], pc'[r]} = {"llm", "sleep"}
        \/ /\ pc[r] \in DOMAIN order
           /\ pc'[r] \in DOMAIN order
           /\ order[pc'[r]] = order[pc[r]] + 1

\* a stage that ends in a step of request r has worked on what the stages
\* before it left in the locals of the handler
WorksOnEarlierResults(r) ==
    LET was == locals[r]
        now == locals'[r]
    IN  pc'[r] # pc[r] =>
            /\ pc'[r] = "retrieved" => Stored(now.rag_results) = collection
            /\ pc'[r] = "catalogued" => now.catalog = RequestCatalog
            /\ pc[r] = "catalogued" => now.history = history_for_llm(was.session_id)
            /\ pc'[r] = "generated" =>
                  /\ now.response = now.llm_response
                  /\ now.llm_response.rag_contexts # <<>> =>
                        ChunkIds(now.llm_response.rag_contexts)
                            \subseteq {was.rag_results[i].id : i \in 1..Len(was.rag_results)}
            /\ pc'[r] = "merged" =>
                  now.response.results =
                      IF was.llm_response.results # <<>>
                      THEN valid_results(was.llm_response.results, was.catalog)
                      ELSE <<>>
            /\ pc'[r] = "ranked" =>
                  now.response.results =
                      IF was.response.results # <<>>
                      THEN Rerank(was.response.results, build.list_sort)
                      ELSE <<>>
            /\ pc'[r] = "reconciled" =>
                  now.response = Reconcile(was.llm_response, was.catalog, build.list_sort)
            /\ (pc'[r] = "done" /\ http'[r].status = 200) =>
                  /\ http'[r].body = was.response
                  /\ _user_conversations' =
                        SessionUpdate(_user_conversations, was.query, was.response)

\* C34 as stated: the stages of a request run in the order retrieve, compose
\* history, generate, merge with its consultation of the catalogue, re-rank,
\* evidence reconciliation, session update.
C34_StagesInStatedOrder ==
    [][\A r \in Requests : RunsInOrder(r, StatedOrder)]_vars

\* C34, amended: the stages of a request run in the order retrieve,
\* consultation of the catalogue, compose history, generate, merge against
\* the catalogue read before the generation, re-rank, evidence
\* reconciliation, session update, and each stage works on the results of
\* the stages before it.
C34_StagesInSourceOrder ==
    [][\A r \in Requests : RunsInOrder(r, SourceOrder) /\ WorksOnEarlierResults(r)]_vars

\* a request went through every stage while the catalogue file was replaced
\* during the wait for the model: the response carries the products as they
\* were read before the generation, in the order of their margins then
C34_Witness ==
    /\ Served(1)
    /\ started = 1
    /\ catalog_file.rows = CatalogRowsB
    /\ _products_cache_mtime = <<1>>
    /\ Len(Body(1).results) = 2
    /\ Body(1).results[1].product = Product("P001", "Bright C Serum", <<55>>)
    /\ Body(1).results[2].product.product_id = "P002"
    /\ Len(Body(1).results[1].supporting_reviews) > 0

\* the chunk that the hydration makes of the entry stored for chunk ch
HydratedFromStore(ch) ==
    LET e == CHOOSE x \in Entries(ingest.doc_chunks) : x.id = ch.chunk_id
    IN  HydrateContext(ch.chunk_id, raw_dict_map(<<FormattedResult(e)>>))

\* C35: every chunk of the chunker carries in its metadata the id and the
\* source type of its parent document, and the hydration of its stored
\* entry yields a chunk with the same id, document id, source type and text.
C35_ChunkRoundTrip ==
    (ingest.pc = "chunker" /\ ingest.chunked) =>
        \A k \in 1..Len(ingest.doc_chunks) :
            LET ch == ingest.doc_chunks[k]
                parent == ingest.parsed_docs[1]
                hyd == HydratedFromStore(ch)
            IN  /\ ch.metadata.original_doc_id = parent.id
                /\ ch.metadata.source_type = parent.source_type
                /\ Len(hyd) = 1
                /\ hyd[1].chunk_id = ch.chunk_id
                /\ hyd[1].document_id = parent.id
                /\ hyd[1].source_type = parent.source_type
                /\ hyd[1].text_chunk = ch.text_chunk

\* a document of two chunks whose metadata named another document and type
C35_Witness ==
    /\ ingest.pc = "chunker"
    /\ ingest.chunked
    /\ ingest.parsed_docs[1].metadata.original_doc_id = "another_doc"
    /\ Len(ingest.doc_chunks) = 2
    /\ HydratedFromStore(ingest.doc_chunks[2])[1].document_id = "brand_info_main_content"
    /\ HydratedFromStore(ingest.doc_chunks[2])[1].text_chunk = ingest.doc_chunks[2].text_chunk

\* C36: a request is only taken once the ingestion of the startup has ended
\* without raising, from the first request on neither the ingestion moves
\* nor the collection changes, and what a request retrieves are the entries
\* the startup left.
C36_IngestionBeforeQueries ==
    [][/\ started' > started =>
             /\ ingest.pc = "ended"
             /\ Last(ingest.runs).outcome # "raised"
       /\ (started > 0 \/ \E r \in Requests : pc[r] # "idle") =>
             /\ collection' = collection
             /\ ingest' = ingest
       /\ \A r \in Requests :
             (pc[r] = "handler" /\ pc'[r] \in {"llm", "done"} /\ http'[r].status # 500) =>
                 /\ ingest.pc = "ended"
                 /\ Stored(locals'[r].rag_results) = Last(ingest.runs).after]_vars

\* the startup replaced the old entries by the new chunks, then a request
\* was answered
C36_Witness ==
    /\ Served(1)
    /\ ingest.pc = "ended"
    /\ ingest.runs[1].inserted
    /\ ingest.runs[1].before = OldEntries
    /\ collection # {}
    /\ Ids(collection) = ingest.runs[1].chunk_ids
    /\ BatchIds(1) = ingest.runs[1].chunk_ids

\* history h is a sequence of pairs: a user turn, then a model turn
Alternates(h) ==
    /\ Len(h) % 2 = 0
    /\ \A i \in 1..Len(h) : h[i].role = (IF i % 2 = 1 THEN "user" ELSE "model")

\* C37: every stored history has even length and alternates user turn, model
\* turn, beginning with a user turn; the history of an answered request's
\* session holds the request's user turn directly followed by its model turn.
C37_HistoryAlternates ==
    /\ \A sid \in DOMAIN _user_conversations : Alternates(_user_conversations[sid])
    /\ \A r \in Requests :
          Served(r) =>
              LET h == StoredHistory(_user_conversations, Body(r).session_id)
                  pair == TurnPair(r, Body(r))
              IN  \E i \in 1..(Len(h) - 1) :
                      i % 2 = 1 /\ h[i] = pair[1] /\ h[i + 1] = pair[2]

\* two requests of session s1 were under way at the same time and both were
\* answered
C37_Witness ==
    /\ Served(1) /\ Served(2)
    /\ Body(1).session_id = "s1" /\ Body(2).session_id = "s1"
    /\ locals[1].history = locals[2].history
    /\ Len(_user_conversations["s1"]) = 20
    /\ Alternates(_user_conversations["s1"])

\* request r ends in this step with an error response
EndsWithError(r) ==
    /\ pc[r] # "done"
    /\ pc'[r] = "done"
    /\ http'[r].status # 200

\* C38: the step in which a request ends with an error leaves every stored
\* history, and the set of stored session ids, as they were.
C38_ErrorLeavesStore ==
    [][\A r \in Requests : EndsWithError(r) => _user_conversations' = _user_conversations]_vars

\* a request of session s1 ended with status 500 in the model call; the
\* stored history of s1 is the one from before
C38_Witness ==
    /\ pc[1] = "done"
    /\ http[1].status = 500
    /\ locals[1].calls > 0
    /\ locals[1].session_id = "s1"
    /\ "s1" \in DOMAIN _user_conversations
    /\ _user_conversations["s1"] = Prefill(MAX_HISTORY_TURNS - 1)

\* C39: a promoted chunk is promoted into one returned result only, the
\* first one in the returned order whose product it matches, and is not in
\* the returned top-level rag_contexts.
C39_PromotedOnceToFirstMatch ==
    \A r \in Requests :
        Served(r) =>
            \A i \in 1..Len(Body(r).results) :
                \A c \in PromotedInto(r, i) :
                    /\ \A j \in 1..Len(Body(r).results) :
                          j # i => c \notin PromotedInto(r, j)
                    /\ \A j \in 1..(i - 1) :
                          ~MatchesProduct(c, Body(r).results[j].product)
                    /\ c.chunk_id \notin ChunkIds(Body(r).rag_contexts)

====
